---- MODULE Spec2Model ----
(***************************************************************************)
(* Altman Z-Score application (src/app.py): the field resolver             *)
(* get_financial_data, the historical series builder                       *)
(* get_historical_financials, the score functions calculate_z_score and    *)
(* interpret_z_score, and the session fetch flow of main.                  *)
(*                                                                         *)
(* Conventions.  A Python value that may be None is a tuple: None is <<>>  *)
(* and a value v is <<v>>.  Money is an integer number of units; a date is *)
(* an integer day number and a year has DaysPerYear days.  A statement     *)
(* (pandas DataFrame) is [columns, rows]: columns is the sequence of       *)
(* period dates in the provider's order, rows maps each field name of the  *)
(* index to a function from period date to cell; a cell holds a number or  *)
(* None.  Scores and ratios are exact fractions [n, d] with d > 0.         *)
(***************************************************************************)
EXTENDS Integers, Sequences, FiniteSets, TLC

VARIABLES
    phase,           \* position of the run: which call or script block is next
    ticker_symbol,   \* argument of the current / last resolver call
    raw,             \* provider snapshot read by the call (yf.Ticker properties)
    frame,           \* locals of get_financial_data at its return
    ret,             \* 4-tuple returned by get_financial_data
    hist,            \* locals and return value of get_historical_financials
    session,         \* st.session_state
    produced_for,    \* history variable: the ticker whose call built session.historical_data
    zres             \* score and category last computed by the score functions

vars == <<phase, ticker_symbol, raw, frame, ret, hist, session, produced_for, zres>>

-----------------------------------------------------------------------------
(* Optional values *)

None == <<>>
Some(x) == <<x>>
Val(x) == x[1]

(* pandas DataFrame accessors *)

EmptyFrame == [columns |-> <<>>, rows |-> <<>>]
empty(df) == Len(df.columns) = 0 \/ DOMAIN df.rows = {}
index(df) == DOMAIN df.rows
loc(df, field, date) == df.rows[field][date]

(* dict.get(key) and dict.get(key, default) *)
get(d, key) == IF key \in DOMAIN d THEN d[key] ELSE None

(* dict.get(key, default) with the default dropped *)
get_default_Dropped(d, key, default) == IF key \in DOMAIN d THEN d[key] ELSE None

get_default(d, key, default) == IF key \in DOMAIN d THEN d[key] ELSE default

(* a provenance period: a statement date, or one of the fixed labels *)
Period(date) == <<"date", date>>

(* the symbol compared as typed *)
upper_AsTyped(s) == s

(* str.upper() on the ticker symbols of the model *)
upper(s) == IF s = "aapl" THEN "AAPL" ELSE s

-----------------------------------------------------------------------------
(* Field-name spellings, in the order the resolver lists them *)

TotalAssetsNames == <<"Total Assets", "TotalAssets">>
TotalLiabNames == <<"Total Liab", "TotalLiab", "Total Liabilities">>
EquityNames == <<"Total Stockholder Equity", "StockholdersEquity", "Stockholders Equity">>
CurrentAssetsNames ==
    <<"Total Current Assets", "CurrentAssets", "totalCurrentAssets",
      "Current Assets", "Total Current Assets Total">>
CurrentLiabilitiesNames ==
    <<"Total Current Liabilities", "CurrentLiabilities", "totalCurrentLiabilities",
      "Current Liabilities", "Total Current Liabilities Total">>
RetainedEarningsNames == <<"Retained Earnings", "RetainedEarnings">>
EbitNames == <<"Ebit", "EBIT", "Operating Income", "OperatingIncome">>
SalesNames == <<"Total Revenue", "Revenue", "TotalRevenue">>

CurrentAssetComponents ==
    << [component |-> "cash",
        field_names |-> <<"Cash And Cash Equivalents", "Cash",
                          "CashAndCashEquivalents", "cashAndCashEquivalents">>],
       [component |-> "short_term_investments",
        field_names |-> <<"Short Term Investments", "ShortTermInvestments",
                          "shortTermInvestments">>],
       [component |-> "receivables",
        field_names |-> <<"Net Receivables", "Receivables",
                          "AccountsReceivable", "accountsReceivable">>],
       [component |-> "inventory",
        field_names |-> <<"Inventory", "Inventories", "inventory", "inventories">>],
       [component |-> "other_current",
        field_names |-> <<"Other Current Assets", "OtherCurrentAssets",
                          "otherCurrentAssets">>] >>

CurrentLiabilityComponents ==
    << [component |-> "accounts_payable",
        field_names |-> <<"Accounts Payable", "AccountsPayable", "accountsPayable">>],
       [component |-> "short_term_debt",
        field_names |-> <<"Short Term Debt", "ShortTermDebt", "shortTermDebt">>],
       [component |-> "accrued_liabilities",
        field_names |-> <<"Accrued Liabilities", "AccruedLiabilities",
                          "accruedLiabilities">>],
       [component |-> "other_current_liab",
        field_names |-> <<"Other Current Liabilities", "OtherCurrentLiabilities",
                          "otherCurrentLiabilities">>] >>

(* The pinned quantities of the overridden symbol, in units of 10^8 dollars *)
AAPL_CURRENT_ASSETS == 1436
AAPL_CURRENT_LIABILITIES == 1256

-----------------------------------------------------------------------------
(* get_financial_data: statement availability and dates *)

has(df) == ~empty(df)

dates_of(r) ==
    [bs  |-> IF has(r.balance_sheet) THEN Some(r.balance_sheet.columns[1]) ELSE None,
     fs  |-> IF has(r.financials) THEN Some(r.financials.columns[1]) ELSE None,
     qbs |-> IF has(r.quarterly_balance_sheet)
             THEN Some(r.quarterly_balance_sheet.columns[1]) ELSE None,
     qfs |-> IF has(r.quarterly_financials)
             THEN Some(r.quarterly_financials.columns[1]) ELSE None]

debug_info_of(r) ==
    [has_balance_sheet |-> has(r.balance_sheet),
     has_financials |-> has(r.financials),
     has_quarterly_balance_sheet |-> has(r.quarterly_balance_sheet),
     has_quarterly_financials |-> has(r.quarterly_financials)]

available_fields_of(r) ==
    [s \in {n \in {"balance_sheet", "financials", "quarterly_balance_sheet",
                   "quarterly_financials"} : has(r[n])} |-> index(r[s])]

latest_bs_date_of(r) ==
    IF dates_of(r).bs # None THEN dates_of(r).bs ELSE dates_of(r).qbs
latest_fs_date_of(r) ==
    IF dates_of(r).fs # None THEN dates_of(r).fs ELSE dates_of(r).qfs

(* the two (source, date) pairs every balance-sheet / income-statement loop walks *)
bs_sources(r) ==
    << [source |-> r.balance_sheet, date |-> latest_bs_date_of(r)],
       [source |-> r.quarterly_balance_sheet, date |-> dates_of(r).qbs] >>
fs_sources(r) ==
    << [source |-> r.financials, date |-> latest_fs_date_of(r)],
       [source |-> r.quarterly_financials, date |-> dates_of(r).qfs] >>

usable(s) == ~empty(s.source) /\ s.date # None

(* for field in field_names: if field in source.index: ... break *)
FirstField(field_names, df) ==
    LET present == {i \in 1..Len(field_names) : field_names[i] \in index(df)}
    IN IF present = {} THEN 0
       ELSE CHOOSE i \in present : \A j \in present : i <= j

(* source.name if hasattr(source, 'name') else default: a DataFrame whose
   columns are dates has no attribute 'name' *)
source_name(df, default) == default

-----------------------------------------------------------------------------
(* The direct lookup loop shared by the seven statement quantities.  acc is
   [value, prov]: the local and its field_values entry (None when unset). *)

LookupStep(acc, s, field_names, default) ==
    LET i == FirstField(field_names, s.source)
    IN IF usable(s) /\ i # 0
       THEN [value |-> loc(s.source, field_names[i], Val(s.date)),
             prov  |-> Some(<< <<field_names[i]>>, Period(Val(s.date)),
                               source_name(s.source, default) >>)]
       ELSE acc

(* the loop without its "if value is not None: break": the last statement
   that lists the field decides *)
RECURSIVE LookupFrom_NoBreak(_, _, _, _, _)
LookupFrom_NoBreak(sources, k, acc, field_names, default) ==
    IF k > Len(sources) THEN acc
    ELSE LookupFrom_NoBreak(sources, k + 1,
                            LookupStep(acc, sources[k], field_names, default),
                            field_names, default)

RECURSIVE LookupFrom(_, _, _, _, _)
LookupFrom(sources, k, acc, field_names, default) ==
    IF k > Len(sources) THEN acc
    ELSE LET a == LookupStep(acc, sources[k], field_names, default)
         IN IF a.value # None THEN a
            ELSE LookupFrom(sources, k + 1, a, field_names, default)

DirectLookup(sources, field_names, default) ==
    LookupFrom(sources, 1, [value |-> None, prov |-> None], field_names, default)

-----------------------------------------------------------------------------
(* 1. Total Assets *)

resolve_total_assets(r) == DirectLookup(bs_sources(r), TotalAssetsNames, "balance_sheet")

(* 2. Total Liabilities, then Total Assets - Shareholder Equity *)

(* first spelling that is in the index and whose cell is not None *)
FirstValued(field_names, s) ==
    LET valued == {i \in 1..Len(field_names) :
                      /\ field_names[i] \in index(s.source)
                      /\ loc(s.source, field_names[i], Val(s.date)) # None}
    IN IF valued = {} THEN 0
       ELSE CHOOSE i \in valued : \A j \in valued : i <= j

(* the derivation with the operator mistyped: total_assets + equity *)
RECURSIVE LiabilitiesFromEquity_Plus(_, _, _, _)
LiabilitiesFromEquity_Plus(sources, k, total_assets, acc) ==
    IF k > Len(sources) THEN acc
    ELSE LET s == sources[k]
             i == IF usable(s) THEN FirstValued(EquityNames, s) ELSE 0
             equity == loc(s.source, EquityNames[i], Val(s.date))
         IN IF i # 0
            THEN [value |-> Some(Val(total_assets) + Val(equity)),
                  prov  |-> Some(<< <<"Calculated from", Val(total_assets), "-", Val(equity)>>,
                                    Period(Val(s.date)), "calculated" >>)]
            ELSE LiabilitiesFromEquity_Plus(sources, k + 1, total_assets, acc)

RECURSIVE LiabilitiesFromEquity(_, _, _, _)
LiabilitiesFromEquity(sources, k, total_assets, acc) ==
    IF k > Len(sources) THEN acc
    ELSE LET s == sources[k]
             i == IF usable(s) THEN FirstValued(EquityNames, s) ELSE 0
             equity == loc(s.source, EquityNames[i], Val(s.date))
         IN IF i # 0
            THEN [value |-> Some(Val(total_assets) - Val(equity)),
                  prov  |-> Some(<< <<"Calculated from", Val(total_assets), "-", Val(equity)>>,
                                    Period(Val(s.date)), "calculated" >>)]
            ELSE LiabilitiesFromEquity(sources, k + 1, total_assets, acc)

resolve_total_liabilities(r, total_assets) ==
    LET direct == DirectLookup(bs_sources(r), TotalLiabNames, "balance_sheet")
    IN IF direct.value = None /\ total_assets # None
       THEN LiabilitiesFromEquity(bs_sources(r), 1, total_assets, direct)
       ELSE direct

(* 3. / 4. Current Assets and Current Liabilities: override, lookup, components *)

RECURSIVE SumValues(_)
SumValues(cells) ==
    IF cells = <<>> THEN 0
    ELSE (IF Head(cells) # None THEN Val(Head(cells)) ELSE 0) + SumValues(Tail(cells))

(* the statement a component is read from: the first usable one that lists a spelling *)
ComponentSource(sources, field_names) ==
    LET hits == {k \in 1..Len(sources) :
                    usable(sources[k]) /\ FirstField(field_names, sources[k].source) # 0}
    IN IF hits = {} THEN 0
       ELSE CHOOSE k \in hits : \A j \in hits : k <= j

(* components / component_sources: the found components, in dict order *)
FindComponents(sources, comps) ==
    LET found(c) == ComponentSource(sources, c.field_names) # 0
        entry(c) ==
            LET s == sources[ComponentSource(sources, c.field_names)]
                f == c.field_names[FirstField(c.field_names, s.source)]
            IN [component |-> c.component, field |-> f,
                value |-> loc(s.source, f, Val(s.date))]
        kept == SelectSeq(comps, found)
    IN [k \in 1..Len(kept) |-> entry(kept[k])]

(* the acceptance test one component short: at_least - 1 components suffice *)
ComponentSum_OneShort(r, comps, need_cash, at_least, acc) ==
    LET components == FindComponents(bs_sources(r), comps)
        names == {components[k].component : k \in 1..Len(components)}
    IN IF (need_cash => "cash" \in names) /\ Len(components) >= at_least - 1
       THEN [value |-> Some(SumValues([k \in 1..Len(components) |-> components[k].value])),
             prov  |-> Some(<< <<"Calculated from",
                                 [k \in 1..Len(components) |-> components[k].field]>>,
                               Period(Val(latest_bs_date_of(r))), "calculated" >>)]
       ELSE acc

ComponentSum(r, comps, need_cash, at_least, acc) ==
    LET components == FindComponents(bs_sources(r), comps)
        names == {components[k].component : k \in 1..Len(components)}
    IN IF (need_cash => "cash" \in names) /\ Len(components) >= at_least
       THEN [value |-> Some(SumValues([k \in 1..Len(components) |-> components[k].value])),
             prov  |-> Some(<< <<"Calculated from",
                                 [k \in 1..Len(components) |-> components[k].field]>>,
                               Period(Val(latest_bs_date_of(r))), "calculated" >>)]
       ELSE acc

ManualOverride(value) ==
    [value |-> Some(value), prov |-> Some(<< <<"Manual override">>, <<"latest">>, "hardcoded" >>)]

resolve_current_assets(ts, r) ==
    IF upper(ts) = "AAPL" THEN ManualOverride(AAPL_CURRENT_ASSETS)
    ELSE LET direct == DirectLookup(bs_sources(r), CurrentAssetsNames, "balance_sheet")
         IN IF direct.value = None
            THEN ComponentSum(r, CurrentAssetComponents, TRUE, 3, direct)
            ELSE direct

resolve_current_liabilities(ts, r) ==
    IF upper(ts) = "AAPL" THEN ManualOverride(AAPL_CURRENT_LIABILITIES)
    ELSE LET direct == DirectLookup(bs_sources(r), CurrentLiabilitiesNames, "balance_sheet")
         IN IF direct.value = None
            THEN ComponentSum(r, CurrentLiabilityComponents, FALSE, 2, direct)
            ELSE direct

(* 5. Retained Earnings, then equity - common stock *)

(* if a in index: x = loc[a] elif b in index: x = loc[b]; otherwise x keeps its value *)
ReadEither(s, a, b, old) ==
    IF a \in index(s.source) THEN loc(s.source, a, Val(s.date))
    ELSE IF b \in index(s.source) THEN loc(s.source, b, Val(s.date))
    ELSE old

RECURSIVE RetainedFromEquity(_, _, _, _, _)
RetainedFromEquity(sources, k, equity, common_stock, acc) ==
    IF k > Len(sources) THEN acc
    ELSE LET s == sources[k]
             e == IF usable(s)
                  THEN ReadEither(s, "Total Stockholder Equity", "StockholdersEquity", equity)
                  ELSE equity
             c == IF usable(s)
                  THEN ReadEither(s, "Common Stock", "CommonStock", common_stock)
                  ELSE common_stock
         IN IF usable(s) /\ e # None /\ c # None
            THEN [value |-> Some(Val(e) - Val(c)),
                  prov  |-> Some(<< <<"Calculated from", Val(e), "-", Val(c)>>,
                                    Period(Val(s.date)), "calculated" >>)]
            ELSE RetainedFromEquity(sources, k + 1, e, c, acc)

resolve_retained_earnings(r) ==
    LET direct == DirectLookup(bs_sources(r), RetainedEarningsNames, "balance_sheet")
    IN IF direct.value = None
       THEN RetainedFromEquity(bs_sources(r), 1, None, None, direct)
       ELSE direct

(* 6. EBIT, then Net Income + |Interest| + |Taxes| *)

(* the value taken with its sign *)
abs_Signed(x) == x

abs(x) == IF x < 0 THEN -x ELSE x

(* for field in names: if field in source.index: x = loc[field]; break *)
ReadFirst(s, field_names, old) ==
    LET i == FirstField(field_names, s.source)
    IN IF i # 0 THEN loc(s.source, field_names[i], Val(s.date)) ELSE old

RECURSIVE EbitFromComponents(_, _, _, _, _, _)
EbitFromComponents(sources, k, net_income, interest_expense, income_tax, acc) ==
    IF k > Len(sources) THEN acc
    ELSE LET s == sources[k]
             n == IF usable(s) THEN ReadFirst(s, <<"Net Income", "NetIncome">>, net_income)
                  ELSE net_income
             i == IF usable(s)
                  THEN ReadFirst(s, <<"Interest Expense", "InterestExpense">>, interest_expense)
                  ELSE interest_expense
             t == IF usable(s)
                  THEN ReadFirst(s, <<"Income Tax Expense", "IncomeTaxExpense", "Tax Provision">>,
                                 income_tax)
                  ELSE income_tax
         IN IF usable(s) /\ n # None /\ i # None /\ t # None
            THEN [value |-> Some(Val(n) + abs(Val(i)) + abs(Val(t))),
                  prov  |-> Some(<< <<"Calculated from Net Income + Interest + Taxes">>,
                                    Period(Val(s.date)), "calculated" >>)]
            ELSE EbitFromComponents(sources, k + 1, n, i, t, acc)

resolve_ebit(r) ==
    LET direct == DirectLookup(fs_sources(r), EbitNames, "financials")
    IN IF direct.value = None
       THEN EbitFromComponents(fs_sources(r), 1, None, None, None, direct)
       ELSE direct

(* 7. Sales/Revenue *)

resolve_sales(r) == DirectLookup(fs_sources(r), SalesNames, "financials")

(* 8. Market Cap, then share price * shares outstanding *)

(* the two strategies in the other order: price * shares before marketCap *)
resolve_market_cap_PriceFirst(r) ==
    LET market_cap == get(r.info, "marketCap")
        share_price == get_default(r.info, "regularMarketPrice", get(r.info, "currentPrice"))
        shares_outstanding == get(r.info, "sharesOutstanding")
    IN IF share_price # None /\ shares_outstanding # None
       THEN [value |-> Some(Val(share_price) * Val(shares_outstanding)),
             prov  |-> Some(<< <<"Calculated from", Val(share_price), "*",
                                 Val(shares_outstanding)>>, <<"current">>, "calculated" >>)]
       ELSE IF market_cap # None
       THEN [value |-> market_cap,
             prov  |-> Some(<< <<"marketCap">>, <<"current">>, "ticker.info" >>)]
       ELSE [value |-> None, prov |-> None]

resolve_market_cap(r) ==
    LET market_cap == get(r.info, "marketCap")
        share_price == get_default(r.info, "regularMarketPrice", get(r.info, "currentPrice"))
        shares_outstanding == get(r.info, "sharesOutstanding")
    IN IF market_cap # None
       THEN [value |-> market_cap,
             prov  |-> Some(<< <<"marketCap">>, <<"current">>, "ticker.info" >>)]
       ELSE IF share_price # None /\ shares_outstanding # None
       THEN [value |-> Some(Val(share_price) * Val(shares_outstanding)),
             prov  |-> Some(<< <<"Calculated from", Val(share_price), "*",
                                 Val(shares_outstanding)>>, <<"current">>, "calculated" >>)]
       ELSE [value |-> None, prov |-> None]

(* working capital *)

(* the two operands added instead of subtracted *)
resolve_working_capital_Sum(current_assets, current_liabilities) ==
    IF current_assets # None /\ current_liabilities # None
    THEN [value |-> Some(Val(current_assets) + Val(current_liabilities)),
          prov  |-> Some(<< <<"Calculated from", Val(current_assets), "-",
                              Val(current_liabilities)>>, <<"N/A">>, "calculated" >>)]
    ELSE [value |-> None, prov |-> None]

resolve_working_capital(current_assets, current_liabilities) ==
    IF current_assets # None /\ current_liabilities # None
    THEN [value |-> Some(Val(current_assets) - Val(current_liabilities)),
          prov  |-> Some(<< <<"Calculated from", Val(current_assets), "-",
                              Val(current_liabilities)>>, <<"N/A">>, "calculated" >>)]
    ELSE [value |-> None, prov |-> None]

-----------------------------------------------------------------------------
(* get_financial_data as a whole *)

QuantityKeys ==
    <<"total_assets", "total_liabilities", "current_assets", "current_liabilities",
      "retained_earnings", "ebit", "sales", "market_cap">>

(* the display names appended to missing_fields, in the order of the checks *)
DisplayNames ==
    <<"Total Assets", "Total Liabilities", "Current Assets", "Current Liabilities",
      "Retained Earnings", "EBIT", "Sales", "Market Cap">>

(* field_values: one entry per key whose assignment ran *)
field_values_of(provs) ==
    [k \in {q \in DOMAIN provs : provs[q] # None} |-> Val(provs[k])]

(* the names collected by insertion at the front: last check first *)
missing_fields_of_Reversed(values) ==
    LET unresolved(i) == values[QuantityKeys[i]] = None
        idx == SelectSeq([i \in 1..Len(QuantityKeys) |-> i], unresolved)
    IN [k \in 1..Len(idx) |-> DisplayNames[idx[Len(idx) + 1 - k]]]

(* missing_fields: the display names of the locals that are None, check by check *)
missing_fields_of(values) ==
    LET unresolved(i) == values[QuantityKeys[i]] = None
        idx == SelectSeq([i \in 1..Len(QuantityKeys) |-> i], unresolved)
    IN [k \in 1..Len(idx) |-> DisplayNames[idx[k]]]

NoDataError == <<"No balance sheet or income statement data available for this ticker">>
MissingError(missing_fields) == <<"Missing required financial data", missing_fields>>
FetchError == <<"Error fetching financial data", "exception">>

(* the locals before any lookup has run *)
UnsetFrame ==
    [total_assets |-> None, total_liabilities |-> None, current_assets |-> None,
     current_liabilities |-> None, retained_earnings |-> None, ebit |-> None,
     sales |-> None, market_cap |-> None, working_capital |-> None,
     field_values |-> <<>>, missing_fields |-> <<>>]

(* the locals at the missing-field check, from the eight lookups' results *)
locals_of(ta, tl, ca, cl, re, eb, sa, mc, wc) ==
    [total_assets |-> ta.value, total_liabilities |-> tl.value,
     current_assets |-> ca.value, current_liabilities |-> cl.value,
     retained_earnings |-> re.value, ebit |-> eb.value,
     sales |-> sa.value, market_cap |-> mc.value, working_capital |-> wc.value,
     field_values |->
         field_values_of([total_assets |-> ta.prov, total_liabilities |-> tl.prov,
                          current_assets |-> ca.prov, current_liabilities |-> cl.prov,
                          retained_earnings |-> re.prov, ebit |-> eb.prov,
                          sales |-> sa.prov, market_cap |-> mc.prov,
                          working_capital |-> wc.prov]),
     missing_fields |->
         missing_fields_of([total_assets |-> ta.value, total_liabilities |-> tl.value,
                            current_assets |-> ca.value, current_liabilities |-> cl.value,
                            retained_earnings |-> re.value, ebit |-> eb.value,
                            sales |-> sa.value, market_cap |-> mc.value])]

(* the lookups in the order of the code *)
resolve_all(ts, r) ==
    locals_of(resolve_total_assets(r),
              resolve_total_liabilities(r, resolve_total_assets(r).value),
              resolve_current_assets(ts, r),
              resolve_current_liabilities(ts, r),
              resolve_retained_earnings(r),
              resolve_ebit(r),
              resolve_sales(r),
              resolve_market_cap(r),
              resolve_working_capital(resolve_current_assets(ts, r).value,
                                      resolve_current_liabilities(ts, r).value))

(* the result dictionary; report_date is the formatted latest_bs_date *)
financial_data_of(ts, r, f) ==
    [company_name |-> get_default(r.info, "longName", Some(ts)),
     ticker |-> ts,
     report_date |-> Val(latest_bs_date_of(r)),
     total_assets |-> Val(f.total_assets),
     total_liabilities |-> Val(f.total_liabilities),
     current_assets |-> Val(f.current_assets),
     current_liabilities |-> Val(f.current_liabilities),
     working_capital |-> Val(f.working_capital),
     retained_earnings |-> Val(f.retained_earnings),
     ebit |-> Val(f.ebit),
     sales |-> Val(f.sales),
     market_value_equity |-> Val(f.market_cap),
     field_sources |-> f.field_values]

(* the return after the lookups, lines 434-458: f is the locals *)
return_of(ts, r, f) ==
    [frame |-> f,
     ret |-> [financial_data |-> IF f.missing_fields # <<>> THEN None
                                 ELSE Some(financial_data_of(ts, r, f)),
              error |-> IF f.missing_fields # <<>>
                        THEN Some(MissingError(f.missing_fields)) ELSE None,
              available_fields |-> available_fields_of(r),
              field_values |-> f.field_values]]

(* returns [frame, ret]: the locals at the return and the returned 4-tuple.
   r.fault: a property of yf.Ticker raises, which the except clause turns
   into a result. *)
get_financial_data(ts, r) ==
    IF r.fault
    THEN [frame |-> UnsetFrame,
          ret |-> [financial_data |-> None, error |-> Some(FetchError),
                   available_fields |-> <<>>,
                   field_values |-> [k \in {"error"} |-> <<"traceback">>]]]
    ELSE IF latest_bs_date_of(r) = None \/ latest_fs_date_of(r) = None
    THEN [frame |-> UnsetFrame,
          ret |-> [financial_data |-> None, error |-> Some(NoDataError),
                   available_fields |-> available_fields_of(r),
                   field_values |-> debug_info_of(r)]]
    ELSE return_of(ts, r, resolve_all(ts, r))

-----------------------------------------------------------------------------
(* Exact arithmetic for the ratios and the score (Python floats).  A division
   by zero on the provider's numpy values does not raise: it gives a value
   that is not finite, NonFinite here, and so does arithmetic on it. *)

RECURSIVE GCD(_, _)
GCD(a, b) == IF b = 0 THEN a ELSE GCD(b, a % b)

NonFinite == [n |-> 0, d |-> 0]
Finite(x) == x.d # 0

Norm(n, d) ==
    LET g == GCD(abs(n), d)
    IN [n |-> n \div g, d |-> d \div g]

(* a / b *)
Ratio(a, b) ==
    IF b = 0 THEN NonFinite
    ELSE IF b < 0 THEN Norm(-a, -b) ELSE Norm(a, b)

(* (p / q) * x for a decimal literal p / q *)
Times(p, q, x) == IF Finite(x) THEN Norm(p * x.n, q * x.d) ELSE NonFinite

Plus(x, y) ==
    IF Finite(x) /\ Finite(y)
    THEN LET l == (x.d \div GCD(x.d, y.d)) * y.d
         IN Norm(x.n * (l \div x.d) + y.n * (l \div y.d), l)
    ELSE NonFinite

Greater(x, y) == x.n * y.d > y.n * x.d
GreaterEq(x, y) == x.n * y.d >= y.n * x.d

-----------------------------------------------------------------------------
(* calculate_z_score and interpret_z_score *)

(* the last coefficient mistyped: 0.99 for 0.999 *)
calculate_z_score_ShortCoefficient(x1, x2, x3, x4, x5) ==
    Plus(Plus(Plus(Plus(Times(12, 10, x1), Times(14, 10, x2)), Times(33, 10, x3)),
              Times(6, 10, x4)), Times(99, 100, x5))

calculate_z_score(x1, x2, x3, x4, x5) ==
    Plus(Plus(Plus(Plus(Times(12, 10, x1), Times(14, 10, x2)), Times(33, 10, x3)),
              Times(6, 10, x4)), Times(999, 1000, x5))

SAFE_THRESHOLD == [n |-> 299, d |-> 100]
DISTRESS_THRESHOLD == [n |-> 181, d |-> 100]

(* the upper threshold taken as inclusive: z >= 2.99 is Low Risk *)
interpret_z_score_Inclusive(z_score) ==
    IF GreaterEq(z_score, [n |-> 299, d |-> 100])
    THEN [category |-> "Low Risk", explanation |-> "Safe Zone"]
    ELSE IF GreaterEq(z_score, [n |-> 181, d |-> 100])
    THEN [category |-> "Grey Zone", explanation |-> "Grey Zone"]
    ELSE [category |-> "High Risk", explanation |-> "Distress Zone"]

(* [category, explanation]; the explanation is identified by its zone heading *)
interpret_z_score(z_score) ==
    IF Greater(z_score, SAFE_THRESHOLD)
    THEN [category |-> "Low Risk", explanation |-> "Safe Zone"]
    ELSE IF GreaterEq(z_score, DISTRESS_THRESHOLD)
    THEN [category |-> "Grey Zone", explanation |-> "Grey Zone"]
    ELSE [category |-> "High Risk", explanation |-> "Distress Zone"]

-----------------------------------------------------------------------------
(* get_historical_financials *)

INITIAL_CLOSEST_DAYS == 365
MATCH_WINDOW_DAYS == 180

(* bs_date.year: day numbers count years of 365 days *)
Year(date) == date \div 365

(* the loop over financials.columns: [closest_date, closest_diff] *)
RECURSIVE ClosestFrom(_, _, _, _)
ClosestFrom(is_dates, k, bs_date, acc) ==
    IF k > Len(is_dates) THEN acc
    ELSE LET diff == abs(bs_date - is_dates[k])
         IN IF diff < acc.closest_diff
            THEN ClosestFrom(is_dates, k + 1, bs_date,
                             [closest_date |-> Some(is_dates[k]), closest_diff |-> diff])
            ELSE ClosestFrom(is_dates, k + 1, bs_date, acc)

Closest(is_dates, bs_date) ==
    ClosestFrom(is_dates, 1, bs_date,
                [closest_date |-> None, closest_diff |-> INITIAL_CLOSEST_DAYS])

(* df.loc[field, date] if field in df.index else None *)
loc_or_none(df, field, date) ==
    IF field \in index(df) THEN loc(df, field, date) ELSE None

(* total liabilities falling back to the other spelling the resolver knows *)
period_values_OtherSpelling(r, bs_date, closest_date) ==
    << loc_or_none(r.balance_sheet, "Total Assets", bs_date),
       IF "Total Liab" \in index(r.balance_sheet)
       THEN loc(r.balance_sheet, "Total Liab", bs_date)
       ELSE loc_or_none(r.balance_sheet, "Total Liabilities", bs_date),
       loc_or_none(r.balance_sheet, "Total Current Assets", bs_date),
       loc_or_none(r.balance_sheet, "Total Current Liabilities", bs_date),
       loc_or_none(r.balance_sheet, "Retained Earnings", bs_date),
       loc_or_none(r.financials, "Ebit", closest_date),
       loc_or_none(r.financials, "Total Revenue", closest_date),
       get(r.info, "marketCap") >>

(* the eight values of one period, in the order of the None test *)
period_values(r, bs_date, closest_date) ==
    << loc_or_none(r.balance_sheet, "Total Assets", bs_date),
       loc_or_none(r.balance_sheet, "Total Liab", bs_date),
       loc_or_none(r.balance_sheet, "Total Current Assets", bs_date),
       loc_or_none(r.balance_sheet, "Total Current Liabilities", bs_date),
       loc_or_none(r.balance_sheet, "Retained Earnings", bs_date),
       loc_or_none(r.financials, "Ebit", closest_date),
       loc_or_none(r.financials, "Total Revenue", closest_date),
       get(r.info, "marketCap") >>

(* the dictionary appended for a period whose values v are all present *)
historical_point(year, v) ==
    LET total_assets == Val(v[1])
        total_liabilities == Val(v[2])
        working_capital == Val(v[3]) - Val(v[4])
        x1 == Ratio(working_capital, total_assets)
        x2 == Ratio(Val(v[5]), total_assets)
        x3 == Ratio(Val(v[6]), total_assets)
        x4 == Ratio(Val(v[8]), total_liabilities)
        x5 == Ratio(Val(v[7]), total_assets)
    IN [date |-> year,
        z_score |-> Plus(Plus(Plus(Plus(Times(12, 10, x1), Times(14, 10, x2)),
                                   Times(33, 10, x3)), Times(6, 10, x4)),
                         Times(999, 1000, x5)),
        working_capital_ratio |-> x1, retained_earnings_ratio |-> x2,
        ebit_ratio |-> x3, market_equity_ratio |-> x4, sales_ratio |-> x5]

(* the window taken as exclusive: a match at exactly 180 days is rejected *)
no_close_match_Exclusive(c) == c.closest_date = None \/ c.closest_diff >= 180

(* line 499: no close match for the income statement *)
no_close_match(c) == c.closest_date = None \/ c.closest_diff > MATCH_WINDOW_DAYS

(* line 516: None in [the eight values] *)
any_missing(v) == \E i \in 1..Len(v) : v[i] = None

(* the year recorded by every pass that was not a repeat, kept or skipped *)
used_after_Always(used_dates, year, outcome) == used_dates \cup {year}

(* used_dates after a pass: line 542 is reached only by a pass that appended *)
used_after(used_dates, year, outcome) ==
    IF outcome = "point" THEN used_dates \cup {year} ELSE used_dates

(* one pass of the loop body for the column bs_date.  st is [historical_data,
   used_dates, trace]; trace records, per column, the locals of the pass and
   how it ended. *)
HistoricalStep(r, st, bs_date) ==
    LET year == Year(bs_date)
        c == IF year \in st.used_dates
             THEN [closest_date |-> None, closest_diff |-> INITIAL_CLOSEST_DAYS]
             ELSE Closest(r.financials.columns, bs_date)
        v == period_values(r, bs_date, Val(c.closest_date))
        outcome == IF year \in st.used_dates THEN "duplicate"
                   ELSE IF no_close_match(c) THEN "no_match"
                   ELSE IF any_missing(v) THEN "missing"
                   ELSE "point"
    IN [historical_data |-> IF outcome = "point"
                            THEN Append(st.historical_data, historical_point(year, v))
                            ELSE st.historical_data,
        used_dates |-> used_after(st.used_dates, year, outcome),
        trace |-> Append(st.trace,
                         [bs_date |-> bs_date, year |-> year,
                          closest_date |-> c.closest_date,
                          closest_diff |-> c.closest_diff, outcome |-> outcome])]

RECURSIVE HistoricalLoop(_, _, _)
HistoricalLoop(r, k, st) ==
    IF k > Len(r.balance_sheet.columns) THEN st
    ELSE HistoricalLoop(r, k + 1, HistoricalStep(r, st, r.balance_sheet.columns[k]))

(* the rows left in the order the loop appended them *)
sort_values_Unsorted(rows) == rows

(* df.sort_values('date'): insertion of each row after the rows not larger *)
RECURSIVE sort_values(_)
sort_values(rows) ==
    IF rows = <<>> THEN <<>>
    ELSE LET last == rows[Len(rows)]
             front == sort_values(SubSeq(rows, 1, Len(rows) - 1))
             le(p) == p.date <= last.date
             gt(p) == p.date > last.date
         IN SelectSeq(front, le) \o <<last>> \o SelectSeq(front, gt)

HistFetchError == <<"Error fetching historical data", "exception">>
NoHistoryError == <<"No historical data available.">>
NoScoresError == <<"Could not calculate historical Z-Scores.">>

(* the except clause returning an empty pair: a provider failure leaves no message *)
get_historical_financials_SilentFault(ts, r, years) ==
    IF r.fault
    THEN [historical_data |-> None, error |-> None, trace |-> <<>>]
    ELSE IF empty(r.balance_sheet) \/ empty(r.financials)
    THEN [historical_data |-> None, error |-> Some(NoHistoryError), trace |-> <<>>]
    ELSE LET st == HistoricalLoop(r, 1, [historical_data |-> <<>>, used_dates |-> {},
                                         trace |-> <<>>])
         IN IF st.historical_data = <<>>
            THEN [historical_data |-> None, error |-> Some(NoScoresError),
                  trace |-> st.trace]
            ELSE [historical_data |-> Some(sort_values(st.historical_data)),
                  error |-> None, trace |-> st.trace]

(* returns [historical_data, error, trace]: the returned pair and the passes
   of the loop.  The years argument is not read by the function body. *)
get_historical_financials(ts, r, years) ==
    IF r.fault
    THEN [historical_data |-> None, error |-> Some(HistFetchError), trace |-> <<>>]
    ELSE IF empty(r.balance_sheet) \/ empty(r.financials)
    THEN [historical_data |-> None, error |-> Some(NoHistoryError), trace |-> <<>>]
    ELSE LET st == HistoricalLoop(r, 1, [historical_data |-> <<>>, used_dates |-> {},
                                         trace |-> <<>>])
         IN IF st.historical_data = <<>>
            THEN [historical_data |-> None, error |-> Some(NoScoresError),
                  trace |-> st.trace]
            ELSE [historical_data |-> Some(sort_values(st.historical_data)),
                  error |-> None, trace |-> st.trace]

-----------------------------------------------------------------------------
(* Provider snapshots the calls are run on *)

Tickers == {"AAPL", "aapl", "MSFT"}

(* the number every field holds in the annual statement; the quarterly
   statement holds 5 more *)
FieldValue ==
    [f \in {"Total Assets", "TotalAssets", "Total Liab", "Total Liabilities",
            "Total Stockholder Equity", "Total Current Assets", "Cash", "Net Receivables",
            "Inventory", "Total Current Liabilities", "Accounts Payable", "Short Term Debt",
            "Retained Earnings", "Common Stock", "Ebit", "Net Income", "Interest Expense",
            "Income Tax Expense", "Total Revenue", "Revenue", "Working Capital"} |->
        CASE f = "Total Assets" -> 1000
          [] f = "TotalAssets" -> 1002
          [] f = "Total Liab" -> 400
          [] f = "Total Liabilities" -> 402
          [] f = "Total Stockholder Equity" -> 610
          [] f = "Total Current Assets" -> 300
          [] f = "Cash" -> 50
          [] f = "Net Receivables" -> 60
          [] f = "Inventory" -> 70
          [] f = "Total Current Liabilities" -> 100
          [] f = "Accounts Payable" -> 30
          [] f = "Short Term Debt" -> 40
          [] f = "Retained Earnings" -> 150
          [] f = "Common Stock" -> 450
          [] f = "Ebit" -> 120
          [] f = "Net Income" -> 80
          [] f = "Interest Expense" -> -10
          [] f = "Income Tax Expense" -> 25
          [] f = "Total Revenue" -> 500
          [] f = "Revenue" -> 502
          [] f = "Working Capital" -> 999]

AnnualValue == FieldValue
QuarterlyValue == [f \in DOMAIN FieldValue |-> FieldValue[f] + 5]

InfoValue ==
    [marketCap |-> 800, regularMarketPrice |-> 20, currentPrice |-> 21,
     sharesOutstanding |-> 41]

(* latest period of each statement *)
LatestDate ==
    [balance_sheet |-> 1460, financials |-> 1461,
     quarterly_balance_sheet |-> 1550, quarterly_financials |-> 1551]

(* every way of listing some of the fields F, each cell a number or None *)
Cells(F, value) ==
    UNION {{[f \in S |-> IF f \in N THEN None ELSE Some(value[f])] : N \in SUBSET S} :
           S \in SUBSET F}

(* the cells of `over` for the fields G, those of `base` for the others *)
MergeCells(base, G, over) ==
    [f \in (DOMAIN base \ G) \cup DOMAIN over |->
        IF f \in DOMAIN over THEN over[f] ELSE base[f]]

(* a statement with the single period `date`; one that lists no field is empty *)
OnePeriod(date, cells) ==
    IF DOMAIN cells = {} THEN EmptyFrame
    ELSE [columns |-> <<date>>, rows |-> [f \in DOMAIN cells |-> [d \in {date} |-> cells[f]]]]

BalancePrimaries ==
    {"Total Assets", "Total Liab", "Total Current Assets", "Total Current Liabilities",
     "Retained Earnings"}
IncomePrimaries == {"Ebit", "Total Revenue"}

FullCells(F, value) == [f \in F |-> Some(value[f])]
FullInfo == [marketCap |-> Some(InfoValue.marketCap), longName |-> Some("Company")]

Snapshot(bs, fs, qbs, qfs, info) ==
    [balance_sheet |-> OnePeriod(LatestDate.balance_sheet, bs),
     financials |-> OnePeriod(LatestDate.financials, fs),
     quarterly_balance_sheet |-> OnePeriod(LatestDate.quarterly_balance_sheet, qbs),
     quarterly_financials |-> OnePeriod(LatestDate.quarterly_financials, qfs),
     info |-> info, fault |-> FALSE]

(* balance-sheet fields G vary: FA in the annual, FQ in the quarterly statement *)
BalanceFocus(G, FA, FQ) ==
    {Snapshot(MergeCells(FullCells(BalancePrimaries, AnnualValue), G, a),
              FullCells(IncomePrimaries, AnnualValue),
              MergeCells(FullCells(BalancePrimaries, QuarterlyValue), G, q),
              FullCells(IncomePrimaries, QuarterlyValue),
              FullInfo) :
        a \in Cells(FA, AnnualValue), q \in Cells(FQ, QuarterlyValue)}

IncomeFocus(G, FA, FQ) ==
    {Snapshot(FullCells(BalancePrimaries, AnnualValue),
              MergeCells(FullCells(IncomePrimaries, AnnualValue), G, a),
              FullCells(BalancePrimaries, QuarterlyValue),
              MergeCells(FullCells(IncomePrimaries, QuarterlyValue), G, q),
              FullInfo) :
        a \in Cells(FA, AnnualValue), q \in Cells(FQ, QuarterlyValue)}

InfoFocus ==
    {Snapshot(FullCells(BalancePrimaries, AnnualValue), FullCells(IncomePrimaries, AnnualValue),
              FullCells(BalancePrimaries, QuarterlyValue),
              FullCells(IncomePrimaries, QuarterlyValue), i) :
        i \in Cells({"marketCap", "regularMarketPrice", "currentPrice", "sharesOutstanding"},
                    InfoValue)}

(* each primary field listed in both statements of its kind or in neither *)
PrimarySubsets ==
    {Snapshot(FullCells(B, AnnualValue), FullCells(I, AnnualValue),
              FullCells(B, QuarterlyValue), FullCells(I, QuarterlyValue),
              IF m THEN FullInfo ELSE [longName |-> Some("Company")]) :
        B \in SUBSET BalancePrimaries, I \in SUBSET IncomePrimaries, m \in BOOLEAN}

(* each of the four statements complete or empty *)
StatementSubsets ==
    {Snapshot(IF "bs" \in E THEN <<>> ELSE FullCells(BalancePrimaries, AnnualValue),
              IF "fs" \in E THEN <<>> ELSE FullCells(IncomePrimaries, AnnualValue),
              IF "qbs" \in E THEN <<>> ELSE FullCells(BalancePrimaries, QuarterlyValue),
              IF "qfs" \in E THEN <<>> ELSE FullCells(IncomePrimaries, QuarterlyValue),
              FullInfo) :
        E \in SUBSET {"bs", "fs", "qbs", "qfs"}}

(* the annual balance sheet has a period but lists none of the fields looked
   up; the quarterly one lists them *)
QuarterlyBalanceOnly ==
    {Snapshot(FullCells({"Working Capital"}, AnnualValue),
              FullCells(IncomePrimaries, AnnualValue),
              FullCells(BalancePrimaries, QuarterlyValue),
              FullCells(IncomePrimaries, QuarterlyValue), FullInfo)}

(* a property of yf.Ticker raises *)
FaultySnapshot ==
    [balance_sheet |-> EmptyFrame, financials |-> EmptyFrame,
     quarterly_balance_sheet |-> EmptyFrame, quarterly_financials |-> EmptyFrame,
     info |-> <<>>, fault |-> TRUE]

ResolveInputs ==
    BalanceFocus({"Total Assets", "TotalAssets"},
                 {"Total Assets", "TotalAssets"}, {"Total Assets", "TotalAssets"})
    \cup BalanceFocus({"Total Liab", "Total Liabilities", "Total Stockholder Equity"},
                      {"Total Liab", "Total Liabilities", "Total Stockholder Equity"},
                      {"Total Liab", "Total Liabilities", "Total Stockholder Equity"})
    \cup BalanceFocus({"Total Assets", "Total Liab", "Total Stockholder Equity"},
                      {"Total Assets", "Total Stockholder Equity"},
                      {"Total Assets", "Total Stockholder Equity"})
    \cup BalanceFocus({"Retained Earnings", "Total Stockholder Equity", "Common Stock"},
                      {"Retained Earnings", "Total Stockholder Equity", "Common Stock"},
                      {"Retained Earnings", "Total Stockholder Equity", "Common Stock"})
    \cup BalanceFocus({"Total Current Assets", "Cash", "Net Receivables", "Inventory"},
                      {"Total Current Assets", "Cash", "Net Receivables", "Inventory"},
                      {"Total Current Assets", "Cash"})
    \cup BalanceFocus({"Total Current Liabilities", "Accounts Payable", "Short Term Debt"},
                      {"Total Current Liabilities", "Accounts Payable", "Short Term Debt"},
                      {"Total Current Liabilities", "Accounts Payable"})
    \cup BalanceFocus({"Working Capital"}, {"Working Capital"}, {"Working Capital"})
    \cup IncomeFocus({"Ebit", "Net Income", "Interest Expense", "Income Tax Expense"},
                     {"Ebit", "Net Income", "Interest Expense", "Income Tax Expense"},
                     {"Ebit", "Net Income"})
    \cup IncomeFocus({"Ebit", "Net Income", "Interest Expense", "Income Tax Expense"},
                     {"Net Income", "Interest Expense", "Income Tax Expense"},
                     {"Net Income", "Interest Expense", "Income Tax Expense"})
    \cup IncomeFocus({"Total Revenue", "Revenue"},
                     {"Total Revenue", "Revenue"}, {"Total Revenue", "Revenue"})
    \cup InfoFocus \cup PrimarySubsets \cup StatementSubsets \cup QuarterlyBalanceOnly
    \cup {FaultySnapshot}

-----------------------------------------------------------------------------
(* State before any call *)

IdleHist == [historical_data |-> None, error |-> None, trace |-> <<>>]
IdleRet == [financial_data |-> None, error |-> None, available_fields |-> <<>>,
            field_values |-> <<>>]
IdleZ == [z_score |-> None, risk_category |-> None, explanation |-> None]

(* main, lines 596-601 and 619-626 *)
InitialSession ==
    [fetched_data |-> None, historical_data |-> None, fetch_requested |-> FALSE,
     fetch_ticker |-> None, fetch_status |-> None]

-----------------------------------------------------------------------------
(* The resolver on its own: one call of get_financial_data per behaviour *)

InitResolve ==
    /\ phase = "call"
    /\ ticker_symbol \in Tickers
    /\ raw \in ResolveInputs
    /\ frame = UnsetFrame
    /\ ret = IdleRet
    /\ hist = IdleHist
    /\ session = InitialSession
    /\ produced_for = None
    /\ zres = IdleZ

CallGetFinancialData ==
    /\ phase = "call"
    /\ frame' = get_financial_data(ticker_symbol, raw).frame
    /\ ret' = get_financial_data(ticker_symbol, raw).ret
    /\ phase' = "returned"
    /\ UNCHANGED <<ticker_symbol, raw, hist, session, produced_for, zres>>

NextResolve == CallGetFinancialData

SpecResolve == InitResolve /\ [][NextResolve]_vars

-----------------------------------------------------------------------------
(* The historical series builder on its own: one call per behaviour *)

MaxPeriods == 2

DEFAULT_YEARS == 5

BalanceDates == {1460, 1640, 1825, 1826}
IncomeDates == {1460, 2006}

(* the sequences of 1 .. MaxPeriods distinct dates of D, in any order *)
Columns(D) ==
    {c \in UNION {[1..n -> D] : n \in 1..MaxPeriods} :
        \A i, j \in 1..Len(c) : i # j => c[i] # c[j]}

(* the number a field holds at a period *)
PeriodValue ==
    [f \in BalancePrimaries \cup IncomePrimaries
            \cup {"TotalAssets", "Total Liabilities", "Revenue", "Net Income"} |->
        CASE f = "Total Assets" -> 20
          [] f = "TotalAssets" -> 21
          [] f = "Total Liabilities" -> 11
          [] f = "Revenue" -> 13
          [] f = "Net Income" -> 3
          [] f = "Total Liab" -> 10
          [] f = "Total Current Assets" -> 8
          [] f = "Total Current Liabilities" -> 4
          [] f = "Retained Earnings" -> 6
          [] f = "Ebit" -> 5
          [] f = "Total Revenue" -> 12]
(* six year-ends in six calendar years, most recent first *)
LongDates == <<4015, 3650, 3285, 2920, 2555, 2190>>

PeriodShift ==
    [d \in BalanceDates \cup IncomeDates \cup {LongDates[i] : i \in 1..Len(LongDates)} |->
        CASE d = 1460 -> 0 [] d = 1640 -> 1 [] d = 1825 -> 2 [] d = 1826 -> 3
          [] d = 2006 -> 4 [] OTHER -> 0]

(* a statement with the periods `columns`, every field of F listed; the
   field `hole` has no value at the periods of `holes` *)
Periods(columns, F, hole, holes) ==
    [columns |-> columns,
     rows |-> [f \in F |->
                  [d \in {columns[i] : i \in 1..Len(columns)} |->
                      IF f = hole /\ d \in holes THEN None
                      ELSE Some(PeriodValue[f] + PeriodShift[d])]]]

(* one annual period in which the primary fields of D are not listed while
   other spellings and the quarterly statements are, and company-info holds
   either marketCap or a price and a share count *)
AlternateInputs ==
    {[balance_sheet |-> Periods(<<1460>>, (BalancePrimaries \ D)
                                              \cup {"TotalAssets", "Total Liabilities"},
                                "Total Assets", {}),
      financials |-> Periods(<<1460>>, (IncomePrimaries \ D) \cup {"Revenue", "Net Income"},
                             "Ebit", {}),
      quarterly_balance_sheet |-> Periods(<<1640>>, BalancePrimaries, "Total Assets", {}),
      quarterly_financials |-> Periods(<<1640>>, IncomePrimaries, "Ebit", {}),
      info |-> i, fault |-> FALSE] :
        D \in {{}} \cup {{f} : f \in BalancePrimaries \cup IncomePrimaries},
        i \in {[marketCap |-> Some(16)],
               [regularMarketPrice |-> Some(4), sharesOutstanding |-> Some(4)]}}

(* complete annual statements with six periods *)
LongHistory ==
    {[balance_sheet |-> Periods(LongDates, BalancePrimaries, "Total Assets", {}),
      financials |-> Periods(LongDates, IncomePrimaries, "Ebit", {}),
      quarterly_balance_sheet |-> EmptyFrame, quarterly_financials |-> EmptyFrame,
      info |-> [marketCap |-> Some(16)], fault |-> FALSE]}

HistoryInputs ==
    {[balance_sheet |-> Periods(bc, BalancePrimaries, "Total Assets", bh),
      financials |-> Periods(fc, IncomePrimaries, "Ebit", fh),
      quarterly_balance_sheet |-> EmptyFrame, quarterly_financials |-> EmptyFrame,
      info |-> IF m THEN [marketCap |-> Some(16)] ELSE <<>>,
      fault |-> FALSE] :
        bc \in Columns(BalanceDates), fc \in Columns(IncomeDates),
        bh \in SUBSET BalanceDates, fh \in SUBSET IncomeDates, m \in BOOLEAN}
    \cup {[balance_sheet |-> b, financials |-> f,
           quarterly_balance_sheet |-> EmptyFrame, quarterly_financials |-> EmptyFrame,
           info |-> [marketCap |-> Some(16)], fault |-> FALSE] :
            b \in {EmptyFrame, Periods(<<1460>>, BalancePrimaries, "Total Assets", {})},
            f \in {EmptyFrame, Periods(<<1460>>, IncomePrimaries, "Ebit", {})}}
    \cup AlternateInputs \cup LongHistory
    \cup {FaultySnapshot}

InitHistory ==
    /\ phase = "call"
    /\ ticker_symbol \in {"MSFT"}
    /\ raw \in HistoryInputs
    /\ frame = UnsetFrame
    /\ ret = IdleRet
    /\ hist = IdleHist
    /\ session = InitialSession
    /\ produced_for = None
    /\ zres = IdleZ

CallGetHistoricalFinancials ==
    /\ phase = "call"
    /\ hist' = get_historical_financials(ticker_symbol, raw, DEFAULT_YEARS)
    /\ phase' = "returned"
    /\ UNCHANGED <<ticker_symbol, raw, frame, ret, session, produced_for, zres>>

NextHistory == CallGetHistoricalFinancials

SpecHistory == InitHistory /\ [][NextHistory]_vars

-----------------------------------------------------------------------------
(* Either function on its own, on any snapshot: one call per behaviour *)

CallInputs == ResolveInputs \cup HistoryInputs

InitCalls ==
    /\ phase = "call"
    /\ ticker_symbol \in Tickers
    /\ raw \in CallInputs
    /\ frame = UnsetFrame
    /\ ret = IdleRet
    /\ hist = IdleHist
    /\ session = InitialSession
    /\ produced_for = None
    /\ zres = IdleZ

NextCalls ==
    \/ CallGetFinancialData
    \/ CallGetHistoricalFinancials

SpecCalls == InitCalls /\ [][NextCalls]_vars

-----------------------------------------------------------------------------
(* interpret_z_score on its own: scores in millionths around the thresholds *)

ScoreSpread == 12

ScoreInputs ==
    {[n |-> k, d |-> 1000000] :
        k \in (1810000 - ScoreSpread .. 1810000 + ScoreSpread)
              \cup (2990000 - ScoreSpread .. 2990000 + ScoreSpread)
              \cup {-2500000, 0, 1000000, 2294200, 2545500, 5000000, 12000000}}

InitScore ==
    /\ phase = "call"
    /\ ticker_symbol \in {"MSFT"}
    /\ raw = FaultySnapshot
    /\ frame = UnsetFrame
    /\ ret = IdleRet
    /\ hist = IdleHist
    /\ session = InitialSession
    /\ produced_for = None
    /\ zres \in {[z_score |-> Some(z), risk_category |-> None, explanation |-> None] :
                    z \in ScoreInputs}

CallInterpretZScore ==
    /\ phase = "call"
    /\ LET r == interpret_z_score(Val(zres.z_score))
       IN zres' = [z_score |-> zres.z_score, risk_category |-> Some(r.category),
                   explanation |-> Some(r.explanation)]
    /\ phase' = "returned"
    /\ UNCHANGED <<ticker_symbol, raw, frame, ret, hist, session, produced_for>>

NextScore == CallInterpretZScore

SpecScore == InitScore /\ [][NextScore]_vars

-----------------------------------------------------------------------------
(* main: the session fetch flow and the Calculate button.  A script run in
   which "Fetch Financial Data" is clicked executes the click block and then
   the handling block; phase tells which block is next. *)

(* what the provider may hold for a ticker when the handling block runs *)
SessionInputs ==
    { Snapshot(FullCells(BalancePrimaries, AnnualValue), FullCells(IncomePrimaries, AnnualValue),
               FullCells(BalancePrimaries, QuarterlyValue),
               FullCells(IncomePrimaries, QuarterlyValue), FullInfo),
      Snapshot(FullCells((BalancePrimaries \ {"Total Liab"}) \cup {"Total Liabilities"},
                         AnnualValue),
               FullCells(IncomePrimaries, AnnualValue), <<>>, <<>>, FullInfo),
      Snapshot(<<>>, <<>>, FullCells(BalancePrimaries, QuarterlyValue),
               FullCells(IncomePrimaries, QuarterlyValue), FullInfo),
      Snapshot(FullCells(BalancePrimaries, AnnualValue), FullCells({"Total Revenue"}, AnnualValue),
               <<>>, <<>>, FullInfo),
      Snapshot(FullCells(BalancePrimaries, AnnualValue), <<>>, <<>>, <<>>, FullInfo),
      Snapshot(<<>>, <<>>, <<>>, <<>>, FullInfo),
      FaultySnapshot }

(* lines 652-656: the fetch button is clicked with ticker t selected *)
ClickFetch(t) ==
    /\ phase = "idle"
    /\ session' = [session EXCEPT !.fetch_requested = TRUE,
                                  !.fetch_ticker = Some(t),
                                  !.fetch_status = Some(<<"Fetching data for", t>>)]
    /\ zres' = IdleZ
    /\ phase' = "handle"
    /\ UNCHANGED <<ticker_symbol, raw, frame, ret, hist, produced_for>>

(* lines 723-733: the "Successfully Retrieved Fields" table unpacks every
   value of the fourth returned element as a (field, date, kind) triple; the
   flags of the no-data return and the traceback of the fetch-error return
   are not triples, so the unpacking raises *)
display_raises(r) == r.error \in {Some(NoDataError), Some(FetchError)}

(* the handling without the resets of lines 748-749 and 754-755: a failed
   fetch leaves the request pending *)
Handle_KeepOnError(ticker, r, out, h) ==
    /\ ticker_symbol' = ticker
    /\ raw' = r
    /\ frame' = out.frame
    /\ ret' = out.ret
    /\ IF out.ret.financial_data # None
       THEN /\ hist' = h
            /\ session' =
                 [fetched_data |-> out.ret.financial_data,
                  historical_data |-> IF h.historical_data # None
                                      THEN h.historical_data
                                      ELSE session.historical_data,
                  fetch_requested |-> FALSE,
                  fetch_ticker |-> None,
                  fetch_status |-> Some(<<"Data fetched successfully">>)]
            /\ produced_for' = IF h.historical_data # None THEN Some(ticker)
                               ELSE produced_for
       ELSE /\ hist' = hist
            /\ session' =
                 [session EXCEPT
                    !.fetch_status =
                        IF display_raises(out.ret)
                        THEN Some(<<"Error", <<"exception">> >>)
                        ELSE Some(<<"Error", Val(out.ret.error)>>)]
            /\ produced_for' = produced_for

(* lines 664-756 once the two calls have returned: out is the result of
   get_financial_data, h that of get_historical_financials *)
Handle(ticker, r, out, h) ==
    /\ ticker_symbol' = ticker
    /\ raw' = r
    /\ frame' = out.frame
    /\ ret' = out.ret
    /\ IF out.ret.financial_data # None
       THEN /\ hist' = h
            /\ session' =
                 [fetched_data |-> out.ret.financial_data,
                  historical_data |-> IF h.historical_data # None
                                      THEN h.historical_data
                                      ELSE session.historical_data,
                  fetch_requested |-> FALSE,
                  fetch_ticker |-> None,
                  fetch_status |-> Some(<<"Data fetched successfully">>)]
            /\ produced_for' = IF h.historical_data # None THEN Some(ticker)
                               ELSE produced_for
       ELSE /\ hist' = hist
            /\ session' =
                 [session EXCEPT
                    !.fetch_status =
                        IF display_raises(out.ret)
                        THEN Some(<<"Error", <<"exception">> >>)
                        ELSE Some(<<"Error", Val(out.ret.error)>>),
                    !.fetch_requested = FALSE,
                    !.fetch_ticker = None]
            /\ produced_for' = produced_for

(* lines 661-756: the handling block *)
HandleFetch ==
    /\ phase = "handle"
    /\ session.fetch_requested /\ session.fetch_ticker # None
    /\ \E r \in SessionInputs :
         Handle(Val(session.fetch_ticker), r,
                get_financial_data(Val(session.fetch_ticker), r),
                get_historical_financials(Val(session.fetch_ticker), r, DEFAULT_YEARS))
    /\ zres' = IdleZ
    /\ phase' = "idle"

(* lines 784-790: the five ratios of the stored record and their score *)
z_score_of(data) ==
    calculate_z_score(Ratio(data.working_capital, data.total_assets),
                      Ratio(data.retained_earnings, data.total_assets),
                      Ratio(data.ebit, data.total_assets),
                      Ratio(data.market_value_equity, data.total_liabilities),
                      Ratio(data.sales, data.total_assets))

(* line 791 on a score that is not finite: inf compares greater than both
   thresholds, nan compares greater than neither *)
NonFiniteInterpretations ==
    {[category |-> "Low Risk", explanation |-> "Safe Zone"],
     [category |-> "High Risk", explanation |-> "Distress Zone"]}

(* lines 783-795: the Calculate button on the stored result *)
ClickCalculate ==
    /\ phase = "idle"
    /\ session.fetched_data # None
    /\ IF Finite(z_score_of(Val(session.fetched_data)))
       THEN zres' = [z_score |-> Some(z_score_of(Val(session.fetched_data))),
                     risk_category |->
                         Some(interpret_z_score(z_score_of(Val(session.fetched_data))).category),
                     explanation |->
                         Some(interpret_z_score(z_score_of(Val(session.fetched_data))).explanation)]
       ELSE \E r \in NonFiniteInterpretations :
                zres' = [z_score |-> Some(z_score_of(Val(session.fetched_data))),
                         risk_category |-> Some(r.category),
                         explanation |-> Some(r.explanation)]
    /\ UNCHANGED <<phase, ticker_symbol, raw, frame, ret, hist, session, produced_for>>

(* a run of the script without a click on either button (any other widget
   interaction): the handling block of lines 661-756 is entered only when a
   request is pending, and the score of a previous run is no longer shown *)
Rerun ==
    /\ phase = "idle"
    /\ IF session.fetch_requested /\ session.fetch_ticker # None
       THEN \E r \in SessionInputs :
                Handle(Val(session.fetch_ticker), r,
                       get_financial_data(Val(session.fetch_ticker), r),
                       get_historical_financials(Val(session.fetch_ticker), r, DEFAULT_YEARS))
       ELSE UNCHANGED <<ticker_symbol, raw, frame, ret, hist, session, produced_for>>
    /\ zres' = IdleZ
    /\ phase' = "idle"

Init ==
    /\ phase = "idle"
    /\ ticker_symbol = "MSFT"
    /\ raw = FaultySnapshot
    /\ frame = UnsetFrame
    /\ ret = IdleRet
    /\ hist = IdleHist
    /\ session = InitialSession
    /\ produced_for = None
    /\ zres = IdleZ

Next ==
    \/ \E t \in Tickers : ClickFetch(t)
    \/ HandleFetch
    \/ ClickCalculate
    \/ Rerun

Spec == Init /\ [][Next]_vars

-----------------------------------------------------------------------------
(* Properties of get_financial_data, stated on the snapshot the call read *)

Returned == phase = "returned"

(* a statement with at least one reporting period and one field *)
HasPeriod(df) == df.columns # <<>> /\ DOMAIN df.rows # {}

(* the call got as far as the field lookups *)
ResolutionRan ==
    /\ Returned /\ ~raw.fault
    /\ HasPeriod(raw.balance_sheet) \/ HasPeriod(raw.quarterly_balance_sheet)
    /\ HasPeriod(raw.financials) \/ HasPeriod(raw.quarterly_financials)

Position(name) == CHOOSE i \in 1..Len(DisplayNames) : DisplayNames[i] = name

(* the names of a missing-fields message: its listed names, none twice, in
   the order Total Assets .. Market Cap *)
NamesInOrder(names) ==
    /\ \A i \in 1..Len(names) : names[i] \in {DisplayNames[k] : k \in 1..Len(DisplayNames)}
    /\ \A i, j \in 1..Len(names) : i < j => Position(names[i]) < Position(names[j])

(* C1: the record is non-null exactly when all eight quantities resolved;
   when the lookups ran and some quantity is unresolved the record is null,
   the error names exactly the unresolved quantities in the order Total
   Assets, Total Liabilities, Current Assets, Current Liabilities, Retained
   Earnings, EBIT, Sales, Market Cap, and the provenance map collected so far
   is returned with an entry for every quantity that did resolve. *)
C1_RecordIffAllResolved ==
    Returned =>
        /\ (ret.financial_data # None) <=>
               (\A i \in 1..Len(QuantityKeys) : frame[QuantityKeys[i]] # None)
        /\ (ResolutionRan /\ ret.financial_data = None) =>
               /\ ret.error # None
               /\ Len(Val(ret.error)) = 2
               /\ Val(ret.error)[1] = "Missing required financial data"
               /\ NamesInOrder(Val(ret.error)[2])
               /\ \A i \in 1..Len(QuantityKeys) :
                      (frame[QuantityKeys[i]] = None) <=>
                          (\E k \in 1..Len(Val(ret.error)[2]) :
                               Val(ret.error)[2][k] = DisplayNames[i])
               /\ ret.field_values = frame.field_values
               /\ \A i \in 1..Len(QuantityKeys) :
                      frame[QuantityKeys[i]] # None =>
                          QuantityKeys[i] \in DOMAIN ret.field_values

C1_Witness ==
    /\ ResolutionRan
    /\ ret.financial_data = None
    /\ ret.error = Some(<<"Missing required financial data",
                          <<"Total Liabilities", "EBIT", "Market Cap">> >>)
    /\ DOMAIN ret.field_values =
           {"total_assets", "current_assets", "current_liabilities", "working_capital",
            "retained_earnings", "sales"}

(* The lookup of one quantity in one statement, read off the snapshot: the
   cell, at the statement's most recent period, of the first listed spelling
   the statement has; None when the statement is empty or has no spelling. *)
Listed(df, field_names) ==
    {i \in 1..Len(field_names) : field_names[i] \in DOMAIN df.rows}
FirstListed(df, field_names) ==
    field_names[CHOOSE i \in Listed(df, field_names) :
                    \A j \in Listed(df, field_names) : i <= j]
StatementCell(df, field_names) ==
    IF HasPeriod(df) /\ Listed(df, field_names) # {}
    THEN df.rows[FirstListed(df, field_names)][df.columns[1]]
    ELSE None
StatementEntry(df, field_names) ==
    << <<FirstListed(df, field_names)>>, <<"date", df.columns[1]>> >>

(* the quantities looked up directly: key, spellings, annual and quarterly
   statement, source kind *)
DirectQuantities ==
    { [key |-> "total_assets", names |-> TotalAssetsNames,
       annual |-> "balance_sheet", quarterly |-> "quarterly_balance_sheet"],
      [key |-> "total_liabilities", names |-> TotalLiabNames,
       annual |-> "balance_sheet", quarterly |-> "quarterly_balance_sheet"],
      [key |-> "current_assets", names |-> CurrentAssetsNames,
       annual |-> "balance_sheet", quarterly |-> "quarterly_balance_sheet"],
      [key |-> "current_liabilities", names |-> CurrentLiabilitiesNames,
       annual |-> "balance_sheet", quarterly |-> "quarterly_balance_sheet"],
      [key |-> "retained_earnings", names |-> RetainedEarningsNames,
       annual |-> "balance_sheet", quarterly |-> "quarterly_balance_sheet"],
      [key |-> "ebit", names |-> EbitNames,
       annual |-> "financials", quarterly |-> "quarterly_financials"],
      [key |-> "sales", names |-> SalesNames,
       annual |-> "financials", quarterly |-> "quarterly_financials"] }

Overridden(q) ==
    q.key \in {"current_assets", "current_liabilities"} /\ ticker_symbol \in {"AAPL", "aapl"}

(* C2: for each directly looked-up quantity the annual statement at its most
   recent period is tried first, then the quarterly statement at its most
   recent period, each under the first listed spelling it has; the first
   statement that yields a value decides: an annual value is never replaced
   by a quarterly one, and a quantity is tagged "calculated" only when both
   lookups yielded nothing. *)
C2_AnnualThenQuarterly ==
    ResolutionRan =>
        \A q \in DirectQuantities :
            ~Overridden(q) =>
                LET a == StatementCell(raw[q.annual], q.names)
                    b == StatementCell(raw[q.quarterly], q.names)
                IN /\ a # None =>
                          /\ frame[q.key] = a
                          /\ frame.field_values[q.key][1] =
                                 StatementEntry(raw[q.annual], q.names)[1]
                          /\ frame.field_values[q.key][2] =
                                 StatementEntry(raw[q.annual], q.names)[2]
                   /\ (a = None /\ b # None) =>
                          /\ frame[q.key] = b
                          /\ frame.field_values[q.key][1] =
                                 StatementEntry(raw[q.quarterly], q.names)[1]
                          /\ frame.field_values[q.key][2] =
                                 StatementEntry(raw[q.quarterly], q.names)[2]
                   /\ (q.key \in DOMAIN frame.field_values
                         /\ frame.field_values[q.key][3] = "calculated") =>
                          a = None /\ b = None

(* both statements hold total assets under both spellings: the annual cell of
   the first spelling is the result *)
C2_Witness ==
    /\ ResolutionRan
    /\ {"Total Assets", "TotalAssets"} \subseteq DOMAIN raw.balance_sheet.rows
    /\ {"Total Assets", "TotalAssets"} \subseteq DOMAIN raw.quarterly_balance_sheet.rows
    /\ raw.balance_sheet.rows["Total Assets"][raw.balance_sheet.columns[1]] = <<1000>>
    /\ raw.balance_sheet.rows["TotalAssets"][raw.balance_sheet.columns[1]] = <<1002>>
    /\ raw.quarterly_balance_sheet.rows["Total Assets"]
           [raw.quarterly_balance_sheet.columns[1]] = <<1005>>
    /\ frame.total_assets = <<1000>>

(* C3: the "no data" error is returned only when neither the balance sheet
   nor the income statement, annual or quarterly, has any reporting period,
   and the provenance map returned with it is empty. *)
C3_NoDataOnlyWithoutAnyPeriod ==
    (Returned /\ ret.error = Some(NoDataError)) =>
        /\ ~HasPeriod(raw.balance_sheet) /\ ~HasPeriod(raw.quarterly_balance_sheet)
        /\ ~HasPeriod(raw.financials) /\ ~HasPeriod(raw.quarterly_financials)
        /\ DOMAIN ret.field_values = {}

(* every canonical field is in the annual statement under its primary name
   with a value, and company-info has the market capitalization *)
PrimaryPresent ==
    /\ ~raw.fault
    /\ \A f \in {"Total Assets", "Total Liab", "Total Current Assets",
                 "Total Current Liabilities", "Retained Earnings"} :
           /\ HasPeriod(raw.balance_sheet)
           /\ f \in DOMAIN raw.balance_sheet.rows
           /\ raw.balance_sheet.rows[f][raw.balance_sheet.columns[1]] # None
    /\ \A f \in {"Ebit", "Total Revenue"} :
           /\ HasPeriod(raw.financials)
           /\ f \in DOMAIN raw.financials.rows
           /\ raw.financials.rows[f][raw.financials.columns[1]] # None
    /\ "marketCap" \in DOMAIN raw.info /\ raw.info["marketCap"] # None

(* the source the quantity of each key is read from *)
SourceOf ==
    [total_assets |-> "balance_sheet", total_liabilities |-> "balance_sheet",
     current_assets |-> "balance_sheet", current_liabilities |-> "balance_sheet",
     retained_earnings |-> "balance_sheet", ebit |-> "financials", sales |-> "financials",
     market_cap |-> "ticker.info"]

(* C5 as stated: with every canonical field present under its primary name
   resolve succeeds and the source_kind of every quantity is the name of the
   statement it was read from. *)
C5_PrimaryGivesStatementKind ==
    (Returned /\ PrimaryPresent) =>
        /\ ret.financial_data # None
        /\ \A k \in DOMAIN SourceOf : ret.field_values[k][3] = SourceOf[k]

(* C5, amended: with every canonical field present under its primary name
   resolve succeeds and no quantity is "calculated"; the source_kind of every
   quantity is the name of the statement it was read from, except that for
   the overridden symbol AAPL current_assets and current_liabilities are
   "hardcoded". *)
C5_PrimaryGivesStatementKindUnlessOverridden ==
    (Returned /\ PrimaryPresent) =>
        /\ ret.financial_data # None
        /\ \A k \in DOMAIN SourceOf :
               /\ ret.field_values[k][3] # "calculated"
               /\ ret.field_values[k][3] =
                      IF ticker_symbol \in {"AAPL", "aapl"}
                         /\ k \in {"current_assets", "current_liabilities"}
                      THEN "hardcoded" ELSE SourceOf[k]

C5_Witness ==
    /\ Returned /\ PrimaryPresent
    /\ ticker_symbol = "MSFT"
    /\ ret.financial_data # None
    /\ ret.field_values["market_cap"][3] = "ticker.info"
    /\ ret.field_values["ebit"][3] = "financials"

(* the equity cells a derivation can read: any listed spelling with a value,
   in the annual or the quarterly balance sheet at its most recent period *)
EquityCells ==
    {df.rows[f][df.columns[1]] :
        <<df, f>> \in {p \in {raw.balance_sheet, raw.quarterly_balance_sheet}
                              \X {"Total Stockholder Equity", "StockholdersEquity",
                                  "Stockholders Equity"} :
                          /\ HasPeriod(p[1])
                          /\ p[2] \in DOMAIN p[1].rows
                          /\ p[1].rows[p[2]][p[1].columns[1]] # None}}

(* C10: when no direct lookup finds total_liabilities, total_assets is
   resolved and a stockholders'-equity field has a value, total_liabilities
   is total_assets minus that equity and its source_kind is "calculated". *)
C10_LiabilitiesFromEquity ==
    (/\ ResolutionRan
     /\ StatementCell(raw.balance_sheet, TotalLiabNames) = None
     /\ StatementCell(raw.quarterly_balance_sheet, TotalLiabNames) = None
     /\ frame.total_assets # None
     /\ EquityCells # {}) =>
        /\ \E equity \in EquityCells :
               frame.total_liabilities = <<frame.total_assets[1] - equity[1]>>
        /\ ret.field_values["total_liabilities"][3] = "calculated"

C10_Witness ==
    /\ ResolutionRan
    /\ "Total Liab" \notin DOMAIN raw.balance_sheet.rows
    /\ "Total Liab" \notin DOMAIN raw.quarterly_balance_sheet.rows
    /\ frame.total_assets = <<1000>>
    /\ EquityCells = {<<610>>, <<615>>}
    /\ frame.total_liabilities = <<390>>
    /\ ret.field_values["total_liabilities"][3] = "calculated"
    /\ ret.financial_data # None

-----------------------------------------------------------------------------
(* Properties of the session *)

(* C4: whenever the session holds both a point-in-time result and a
   historical series, the series was built for the ticker of the result. *)
C4_HistoryOfSameTicker ==
    (session.fetched_data # None /\ session.historical_data # None) =>
        /\ produced_for # None
        /\ upper(Val(produced_for)) = upper(Val(session.fetched_data).ticker)

-----------------------------------------------------------------------------
(* Properties of get_historical_financials, stated on the snapshot read *)

(* the loop over the balance-sheet periods ran *)
LoopRan ==
    /\ Returned /\ ~raw.fault
    /\ HasPeriod(raw.balance_sheet) /\ HasPeriod(raw.financials)
    /\ Len(hist.trace) = Len(raw.balance_sheet.columns)

Series == IF hist.historical_data = None THEN <<>> ELSE hist.historical_data[1]
PointsOfYear(y) == {k \in 1..Len(Series) : Series[k].date = y}

Distance(a, b) == IF a < b THEN b - a ELSE a - b

(* the smallest distance from d to an income-statement period, and the first
   income-statement column at that distance *)
MinDistance(d) ==
    LET ds == {Distance(d, raw.financials.columns[i]) :
                  i \in 1..Len(raw.financials.columns)}
    IN CHOOSE m \in ds : \A x \in ds : m <= x
NearestIncome(d) ==
    LET at == {i \in 1..Len(raw.financials.columns) :
                  Distance(d, raw.financials.columns[i]) = MinDistance(d)}
    IN raw.financials.columns[CHOOSE i \in at : \A j \in at : i <= j]

HasValue(df, f, d) == f \in DOMAIN df.rows /\ df.rows[f][d] # None

(* column k passes the income-statement match and has all eight values *)
Survives(k) ==
    LET d == raw.balance_sheet.columns[k]
    IN /\ MinDistance(d) <= 180
       /\ \A f \in {"Total Assets", "Total Liab", "Total Current Assets",
                    "Total Current Liabilities", "Retained Earnings"} :
              HasValue(raw.balance_sheet, f, d)
       /\ \A f \in {"Ebit", "Total Revenue"} : HasValue(raw.financials, f, NearestIncome(d))
       /\ "marketCap" \in DOMAIN raw.info /\ raw.info["marketCap"] # None

CalendarYear(k) == raw.balance_sheet.columns[k] \div 365
ColumnsOfYear(y) == {k \in 1..Len(raw.balance_sheet.columns) : CalendarYear(k) = y}

(* C6 as stated: two balance-sheet periods of the same calendar year yield
   exactly one point, computed from the first-encountered period of the year. *)
C6_OnePointFromFirstPeriod ==
    LoopRan =>
        \A i, j \in 1..Len(raw.balance_sheet.columns) :
            (i < j /\ CalendarYear(i) = CalendarYear(j)) =>
                /\ Cardinality(PointsOfYear(CalendarYear(i))) = 1
                /\ \A k \in ColumnsOfYear(CalendarYear(i)) :
                       (hist.trace[k].outcome = "point") <=>
                           (\A l \in ColumnsOfYear(CalendarYear(i)) : k <= l)

(* C6, amended: two balance-sheet periods of the same calendar year yield at
   most one point; it is computed from the first-encountered period of the
   year that passes the income-statement match and has all eight values, and
   there is none when no period of the year does. *)
C6_OnePointFromFirstSurvivingPeriod ==
    LoopRan =>
        \A i, j \in 1..Len(raw.balance_sheet.columns) :
            (i < j /\ CalendarYear(i) = CalendarYear(j)) =>
                LET same == ColumnsOfYear(CalendarYear(i))
                    good == {k \in same : Survives(k)}
                IN /\ Cardinality(PointsOfYear(CalendarYear(i))) =
                          IF good = {} THEN 0 ELSE 1
                   /\ \A k \in same :
                          (hist.trace[k].outcome = "point") <=>
                              (k \in good /\ \A l \in good : k <= l)

(* two periods of one year, the first yields the point, the second is dropped *)
C6_Witness ==
    /\ LoopRan
    /\ Len(raw.balance_sheet.columns) = 2
    /\ CalendarYear(1) = CalendarYear(2)
    /\ Survives(1) /\ Survives(2)
    /\ hist.trace[1].outcome = "point"
    /\ hist.trace[2].outcome = "duplicate"
    /\ Len(Series) = 1

(* C7: each balance-sheet period that is not a repeated year is paired with
   the income-statement period at the smallest absolute distance; it is kept
   when that distance is at most 180 days and skipped when it is 181 days or
   more. *)
C7_NearestWithin180Days ==
    LoopRan =>
        \A k \in 1..Len(hist.trace) :
            hist.trace[k].outcome # "duplicate" =>
                LET d == raw.balance_sheet.columns[k]
                IN /\ MinDistance(d) <= 180 =>
                          /\ hist.trace[k].outcome \in {"point", "missing"}
                          /\ hist.trace[k].closest_date # None
                          /\ Distance(d, hist.trace[k].closest_date[1]) = MinDistance(d)
                          /\ hist.trace[k].outcome = "point" =>
                                 PointsOfYear(CalendarYear(k)) # {}
                   /\ MinDistance(d) >= 181 => hist.trace[k].outcome = "no_match"

(* one period exactly 180 days from its nearest income period is kept, one
   exactly 181 days away is skipped *)
C7_Witness ==
    /\ LoopRan
    /\ \E k \in 1..Len(hist.trace) :
           /\ MinDistance(raw.balance_sheet.columns[k]) = 180
           /\ hist.trace[k].outcome = "point"
    /\ \E k \in 1..Len(hist.trace) :
           /\ MinDistance(raw.balance_sheet.columns[k]) = 181
           /\ hist.trace[k].outcome = "no_match"

-----------------------------------------------------------------------------
(* Properties of the score functions *)

(* C8: every score gets exactly one category: Low Risk when z > 2.99, Grey
   Zone when 1.81 <= z <= 2.99, High Risk when z < 1.81 (z in millionths). *)
C8_ThreeWaySplit ==
    (Returned /\ zres.z_score # None /\ zres.risk_category # None) =>
        LET z == zres.z_score[1].n
            category == zres.risk_category[1]
        IN /\ zres.z_score[1].d = 1000000
           /\ category \in {"Low Risk", "Grey Zone", "High Risk"}
           /\ (category = "Low Risk") <=> (z > 2990000)
           /\ (category = "Grey Zone") <=> (1810000 <= z /\ z <= 2990000)
           /\ (category = "High Risk") <=> (z < 1810000)

C8_Witness ==
    /\ Returned
    /\ zres.z_score = <<[n |-> 2990000, d |-> 1000000]>>
    /\ zres.risk_category = <<"Grey Zone">>

(* C9: the score of a stored record is 1.2 x1 + 1.4 x2 + 3.3 x3 + 0.6 x4 +
   0.999 x5 with x1 = working_capital / total_assets, x2 = retained_earnings
   / total_assets, x3 = ebit / total_assets, x4 = market_value_equity /
   total_liabilities, x5 = sales / total_assets, that is
     ((1200 wc + 1400 re + 3300 ebit + 999 sales) tl + 600 mve ta) / (1000 ta tl);
   the record 1000, 400, 300, 100, 150, 120, 500, 800 has working capital
   200, score 2.5455 and category Grey Zone. *)
C9_ScoreFormula ==
    (zres.z_score # None /\ session.fetched_data # None) =>
        LET data == session.fetched_data[1]
            z == zres.z_score[1]
            num == (1200 * data.working_capital + 1400 * data.retained_earnings
                    + 3300 * data.ebit + 999 * data.sales) * data.total_liabilities
                   + 600 * data.market_value_equity * data.total_assets
            den == 1000 * data.total_assets * data.total_liabilities
        IN /\ data.working_capital = data.current_assets - data.current_liabilities
           /\ den > 0 =>
                  /\ z.d > 0 /\ den % z.d = 0
                  /\ z.n * (den \div z.d) = num
           /\ (/\ data.total_assets = 1000 /\ data.total_liabilities = 400
               /\ data.current_assets = 300 /\ data.current_liabilities = 100
               /\ data.retained_earnings = 150 /\ data.ebit = 120
               /\ data.sales = 500 /\ data.market_value_equity = 800) =>
                  /\ data.working_capital = 200
                  /\ z.n * 10000 = 25455 * z.d
                  /\ zres.risk_category = <<"Grey Zone">>

C9_Witness ==
    /\ session.fetched_data # None
    /\ session.fetched_data[1].total_assets = 1000
    /\ session.fetched_data[1].total_liabilities = 400
    /\ session.fetched_data[1].current_assets = 300
    /\ session.fetched_data[1].current_liabilities = 100
    /\ session.fetched_data[1].retained_earnings = 150
    /\ session.fetched_data[1].ebit = 120
    /\ session.fetched_data[1].sales = 500
    /\ session.fetched_data[1].market_value_equity = 800
    /\ zres.z_score = <<[n |-> 5091, d |-> 2000]>>
    /\ zres.risk_category = <<"Grey Zone">>

-----------------------------------------------------------------------------
(* Properties of the derivations of get_financial_data *)

(* a statement that has a period and lists one of the spellings *)
Lists(df, field_names) == HasPeriod(df) /\ Listed(df, field_names) # {}

(* the cell a component is read from: the annual balance sheet when it lists
   the component, the quarterly one otherwise *)
ComponentCell(field_names) ==
    IF Lists(raw.balance_sheet, field_names)
    THEN StatementCell(raw.balance_sheet, field_names)
    ELSE StatementCell(raw.quarterly_balance_sheet, field_names)

(* the current-asset components some balance sheet lists *)
PresentAssetComponents ==
    {k \in 1..Len(CurrentAssetComponents) :
        \/ Lists(raw.balance_sheet, CurrentAssetComponents[k].field_names)
        \/ Lists(raw.quarterly_balance_sheet, CurrentAssetComponents[k].field_names)}

(* what component k adds to the sum: its cell when it is present and holds a number *)
AssetTerm(k) ==
    IF k \in PresentAssetComponents
          /\ ComponentCell(CurrentAssetComponents[k].field_names) # None
    THEN ComponentCell(CurrentAssetComponents[k].field_names)[1]
    ELSE 0

NoDirectCurrentAssets ==
    /\ ResolutionRan
    /\ ~(ticker_symbol \in {"AAPL", "aapl"})
    /\ StatementCell(raw.balance_sheet, CurrentAssetsNames) = None
    /\ StatementCell(raw.quarterly_balance_sheet, CurrentAssetsNames) = None

(* C11: when no direct lookup yields current_assets (and the symbol is not
   the overridden one), the component sum is accepted exactly when cash is
   present and at least 3 of the 5 components are present: current_assets is
   then the sum of the present components' values, tagged "calculated";
   with fewer components, or without cash, current_assets stays unresolved
   and "Current Assets" is reported missing. *)
C11_ComponentSumNeedsCashAndThree ==
    NoDirectCurrentAssets =>
        IF 1 \in PresentAssetComponents /\ Cardinality(PresentAssetComponents) >= 3
        THEN /\ frame.current_assets =
                    <<AssetTerm(1) + AssetTerm(2) + AssetTerm(3) + AssetTerm(4) + AssetTerm(5)>>
             /\ ret.field_values["current_assets"][3] = "calculated"
        ELSE /\ frame.current_assets = None
             /\ ret.financial_data = None
             /\ \E i \in 1..Len(frame.missing_fields) :
                    frame.missing_fields[i] = "Current Assets"

(* cash, receivables and inventory listed with their values, no total *)
C11_Witness ==
    /\ NoDirectCurrentAssets
    /\ PresentAssetComponents = {1, 3, 4}
    /\ frame.current_assets = <<180>>
    /\ ret.field_values["current_assets"][3] = "calculated"
    /\ ret.financial_data # None

(* the source kinds of the provenance map *)
SourceKinds == {ret.field_values[k][3] : k \in DOMAIN ret.field_values}

(* C13: for the symbol AAPL in any letter case, whenever the lookups ran,
   current_assets and current_liabilities are the pinned constants (143.6 and
   125.6 billion, here in units of 100 million) whatever the statements
   contain, each with provenance ("Manual override", "latest", "hardcoded");
   for every other symbol no quantity has source_kind "hardcoded". *)
C13_OverridePinsAAPL ==
    ResolutionRan =>
        IF ticker_symbol \in {"AAPL", "aapl"}
        THEN /\ frame.current_assets = <<1436>>
             /\ frame.current_liabilities = <<1256>>
             /\ ret.field_values["current_assets"] =
                    << <<"Manual override">>, <<"latest">>, "hardcoded" >>
             /\ ret.field_values["current_liabilities"] =
                    << <<"Manual override">>, <<"latest">>, "hardcoded" >>
             /\ ret.financial_data # None =>
                    /\ ret.financial_data[1].current_assets = 1436
                    /\ ret.financial_data[1].current_liabilities = 1256
        ELSE "hardcoded" \notin SourceKinds

(* the lower-case symbol on statements that list both totals *)
C13_Witness ==
    /\ ResolutionRan
    /\ ticker_symbol = "aapl"
    /\ StatementCell(raw.balance_sheet, CurrentAssetsNames) = <<300>>
    /\ StatementCell(raw.balance_sheet, CurrentLiabilitiesNames) = <<100>>
    /\ ret.financial_data # None
    /\ ret.financial_data[1].current_assets = 1436
    /\ ret.financial_data[1].current_liabilities = 1256

(* company-info entries: None when info has no such entry or holds null *)
InfoEntry(key) == IF key \in DOMAIN raw.info THEN raw.info[key] ELSE None

(* the share price: the regularMarketPrice entry, or the currentPrice entry
   when info has no regularMarketPrice entry *)
SharePrice ==
    IF "regularMarketPrice" \in DOMAIN raw.info THEN raw.info["regularMarketPrice"]
    ELSE InfoEntry("currentPrice")

Reported(name) == \E i \in 1..Len(frame.missing_fields) : frame.missing_fields[i] = name

(* C14: whenever the lookups ran, market_cap is the company-info marketCap
   entry when it is present (kind "ticker.info"); otherwise it is share price
   times sharesOutstanding when both are present (kind "calculated");
   otherwise it is unresolved, has no provenance entry, and "Market Cap" is
   reported missing.  A successful record carries it as market_value_equity. *)
C14_MarketCapChain ==
    ResolutionRan =>
        /\ IF InfoEntry("marketCap") # None
           THEN /\ frame.market_cap = InfoEntry("marketCap")
                /\ ret.field_values["market_cap"][3] = "ticker.info"
           ELSE IF SharePrice # None /\ InfoEntry("sharesOutstanding") # None
           THEN /\ frame.market_cap = <<SharePrice[1] * InfoEntry("sharesOutstanding")[1]>>
                /\ ret.field_values["market_cap"][3] = "calculated"
           ELSE /\ frame.market_cap = None
                /\ "market_cap" \notin DOMAIN ret.field_values
                /\ ret.financial_data = None
                /\ Reported("Market Cap")
        /\ ret.financial_data # None =>
               <<ret.financial_data[1].market_value_equity>> = frame.market_cap

(* no marketCap and no regularMarketPrice entry: currentPrice * sharesOutstanding *)
C14_Witness ==
    /\ ResolutionRan
    /\ InfoEntry("marketCap") = None
    /\ "regularMarketPrice" \notin DOMAIN raw.info
    /\ SharePrice = <<21>>
    /\ InfoEntry("sharesOutstanding") = <<41>>
    /\ ret.financial_data # None
    /\ ret.financial_data[1].market_value_equity = 861
    /\ ret.field_values["market_cap"][3] = "calculated"

(* C15: in every successful result working_capital is current_assets minus
   current_liabilities of the same record, and wherever working_capital has
   a provenance entry its period is "N/A" and its source_kind "calculated",
   also when a statement lists a Working Capital row of its own. *)
C15_WorkingCapitalDerived ==
    ResolutionRan =>
        /\ ret.financial_data # None =>
              /\ ret.financial_data[1].working_capital =
                     ret.financial_data[1].current_assets
                         - ret.financial_data[1].current_liabilities
              /\ "working_capital" \in DOMAIN ret.field_values
        /\ "working_capital" \in DOMAIN ret.field_values =>
              /\ ret.field_values["working_capital"][2] = <<"N/A">>
              /\ ret.field_values["working_capital"][3] = "calculated"

(* the annual balance sheet lists Working Capital = 999 next to the totals 300 and 100 *)
C15_Witness ==
    /\ ResolutionRan
    /\ ticker_symbol = "MSFT"
    /\ StatementCell(raw.balance_sheet, <<"Working Capital">>) = <<999>>
    /\ ret.financial_data # None
    /\ ret.financial_data[1].current_assets = 300
    /\ ret.financial_data[1].current_liabilities = 100
    /\ ret.financial_data[1].working_capital = 200

BalanceSheetKeys ==
    {"total_assets", "total_liabilities", "current_assets", "current_liabilities",
     "retained_earnings"}

(* the balance-sheet quantities read from a statement cell, and their recorded periods *)
ReadFromBalanceSheet ==
    {k \in BalanceSheetKeys \cap DOMAIN ret.field_values :
        ret.field_values[k][3] = "balance_sheet"}
PeriodsRead == {ret.field_values[k][2] : k \in ReadFromBalanceSheet}

(* C16: the report_date of a successful result is the period of the balance
   sheet the balance-sheet quantities were read from: every balance-sheet
   quantity read from a statement was read at the report date. *)
C16_ReportDateIsPeriodRead ==
    (ResolutionRan /\ ret.financial_data # None) =>
        \A p \in PeriodsRead : p = <<"date", ret.financial_data[1].report_date>>

NetIncomeNames == <<"Net Income", "NetIncome">>
InterestNames == <<"Interest Expense", "InterestExpense">>
TaxNames == <<"Income Tax Expense", "IncomeTaxExpense", "Tax Provision">>

Magnitude(x) == IF x < 0 THEN 0 - x ELSE x

(* an income statement in which all three components have a value, and the
   EBIT they give *)
AllThreeValued(df) ==
    /\ StatementCell(df, NetIncomeNames) # None
    /\ StatementCell(df, InterestNames) # None
    /\ StatementCell(df, TaxNames) # None
EbitOf(df) ==
    StatementCell(df, NetIncomeNames)[1] + Magnitude(StatementCell(df, InterestNames)[1])
        + Magnitude(StatementCell(df, TaxNames)[1])

(* a component with no value in either income statement *)
Absent(field_names) ==
    /\ StatementCell(raw.financials, field_names) = None
    /\ StatementCell(raw.quarterly_financials, field_names) = None

NoDirectEbit ==
    /\ ResolutionRan
    /\ StatementCell(raw.financials, EbitNames) = None
    /\ StatementCell(raw.quarterly_financials, EbitNames) = None

(* C19: when no direct lookup yields EBIT and an income statement (the
   annual one first, else the quarterly one) has a value for net income,
   interest expense and income tax expense, ebit is net income plus the
   magnitudes of the other two, at that statement's period, tagged
   "calculated"; when one of the three has a value in neither statement EBIT
   stays unresolved and is reported missing. *)
C19_EbitFromComponents ==
    NoDirectEbit =>
        /\ AllThreeValued(raw.financials) =>
              /\ frame.ebit = <<EbitOf(raw.financials)>>
              /\ ret.field_values["ebit"][2] = <<"date", raw.financials.columns[1]>>
              /\ ret.field_values["ebit"][3] = "calculated"
        /\ (~AllThreeValued(raw.financials) /\ AllThreeValued(raw.quarterly_financials)) =>
              /\ frame.ebit = <<EbitOf(raw.quarterly_financials)>>
              /\ ret.field_values["ebit"][2] = <<"date", raw.quarterly_financials.columns[1]>>
              /\ ret.field_values["ebit"][3] = "calculated"
        /\ (Absent(NetIncomeNames) \/ Absent(InterestNames) \/ Absent(TaxNames)) =>
              /\ frame.ebit = None
              /\ ret.financial_data = None
              /\ Reported("EBIT")

(* the annual statement lists no EBIT and has a negative interest expense:
   80 + |-10| + |25| *)
C19_Witness ==
    /\ NoDirectEbit
    /\ StatementCell(raw.financials, NetIncomeNames) = <<80>>
    /\ StatementCell(raw.financials, InterestNames) = <<-10>>
    /\ StatementCell(raw.financials, TaxNames) = <<25>>
    /\ frame.ebit = <<115>>
    /\ ret.field_values["ebit"][3] = "calculated"
    /\ ret.financial_data # None
    /\ ret.financial_data[1].ebit = 115

RetainedEquityNames == <<"Total Stockholder Equity", "StockholdersEquity">>
CommonStockNames == <<"Common Stock", "CommonStock">>

RetainedDerived ==
    /\ ResolutionRan
    /\ "retained_earnings" \in DOMAIN ret.field_values
    /\ ret.field_values["retained_earnings"][3] = "calculated"

(* the derivation done within the one balance sheet df *)
DerivedWithin(df) ==
    /\ HasPeriod(df)
    /\ ret.field_values["retained_earnings"][2] = <<"date", df.columns[1]>>
    /\ StatementCell(df, RetainedEquityNames) # None
    /\ StatementCell(df, CommonStockNames) # None
    /\ frame.retained_earnings =
           <<StatementCell(df, RetainedEquityNames)[1] - StatementCell(df, CommonStockNames)[1]>>

(* C20: whenever retained_earnings is derived, it is stockholders' equity
   minus common stock with both operands read from the same balance sheet at
   the same period, the period recorded in the provenance entry. *)
C20_RetainedFromOneStatement ==
    RetainedDerived =>
        \/ DerivedWithin(raw.balance_sheet)
        \/ DerivedWithin(raw.quarterly_balance_sheet)

ResolvedKeys ==
    {"total_assets", "total_liabilities", "current_assets", "current_liabilities",
     "retained_earnings", "ebit", "sales", "market_cap"}

(* C21: at the return of get_financial_data, whenever the lookups ran, the
   provenance map has an entry for a quantity exactly when the quantity
   resolved to a non-null value. *)
C21_ProvenanceIffResolved ==
    ResolutionRan =>
        \A k \in ResolvedKeys : (k \in DOMAIN ret.field_values) <=> (frame[k] # None)

-----------------------------------------------------------------------------
(* Properties of the results of both functions *)

ExactlyOne(data, error) == (data = None) # (error = None)

(* the call that ran: a call leaves the other function's result untouched *)
ResolverReturned == Returned /\ hist = IdleHist
HistoryReturned == Returned /\ ret = IdleRet

(* C12: every call of get_financial_data and of get_historical_financials
   returns with exactly one of the data value and the error message
   non-null; when the data provider fails inside the call the call still
   returns, without data, and its message is the fetch-error message of that
   function, which is not the missing-fields message. *)
C12_StructuredResults ==
    /\ ResolverReturned =>
          /\ ExactlyOne(ret.financial_data, ret.error)
          /\ raw.fault =>
                /\ ret.financial_data = None
                /\ ret.error = <<<<"Error fetching financial data", "exception">>>>
                /\ ret.error[1][1] # "Missing required financial data"
    /\ HistoryReturned =>
          /\ ExactlyOne(hist.historical_data, hist.error)
          /\ raw.fault =>
                /\ hist.historical_data = None
                /\ hist.error = <<<<"Error fetching historical data", "exception">>>>

(* the provider failed inside get_historical_financials *)
C12_Witness ==
    /\ HistoryReturned
    /\ raw.fault
    /\ hist.historical_data = None
    /\ hist.error # None

-----------------------------------------------------------------------------
(* Properties of the values and of the order of the historical series *)

(* the cell of one of the seven fields at a period of an annual statement *)
AnnualCell(df, f, d) == df.rows[f][d][1]

(* the point of the series computed from column k *)
PointOf(k) == Series[CHOOSE i \in 1..Len(Series) : Series[i].date = CalendarYear(k)]

(* a ratio of the model's exact arithmetic equals num / den *)
IsQuotient(x, num, den) == x.d # 0 /\ x.n * den = x.d * num

(* the five ratios of a point are those of the seven named cells and marketCap *)
FromNamedFields(k) ==
    LET d == raw.balance_sheet.columns[k]
        m == NearestIncome(d)
        ta == AnnualCell(raw.balance_sheet, "Total Assets", d)
        tl == AnnualCell(raw.balance_sheet, "Total Liab", d)
        ca == AnnualCell(raw.balance_sheet, "Total Current Assets", d)
        cl == AnnualCell(raw.balance_sheet, "Total Current Liabilities", d)
        re == AnnualCell(raw.balance_sheet, "Retained Earnings", d)
        eb == AnnualCell(raw.financials, "Ebit", m)
        sa == AnnualCell(raw.financials, "Total Revenue", m)
    IN /\ IsQuotient(PointOf(k).working_capital_ratio, ca - cl, ta)
       /\ IsQuotient(PointOf(k).retained_earnings_ratio, re, ta)
       /\ IsQuotient(PointOf(k).ebit_ratio, eb, ta)
       /\ IsQuotient(PointOf(k).market_equity_ratio, raw.info["marketCap"][1], tl)
       /\ IsQuotient(PointOf(k).sales_ratio, sa, ta)

(* C17: get_historical_financials uses no fallback: a balance-sheet period
   gives a point only when Total Assets, Total Liab, Total Current Assets,
   Total Current Liabilities and Retained Earnings have a value in the annual
   balance sheet at that period, Ebit and Total Revenue have one in the annual
   income statement at the matched period, and company-info has marketCap;
   the point's ratios are computed from exactly these values.  Other
   spellings, the quarterly statements and price times shares are not used. *)
C17_NoFallbackInHistory ==
    LoopRan =>
        \A k \in 1..Len(hist.trace) :
            hist.trace[k].outcome = "point" =>
                /\ Survives(k)
                /\ PointsOfYear(CalendarYear(k)) # {}
                /\ FromNamedFields(k)

(* the annual balance sheet lists Total Liabilities but not Total Liab, the
   quarterly statements are complete: no point *)
C17_Witness ==
    /\ LoopRan
    /\ "Total Liab" \notin DOMAIN raw.balance_sheet.rows
    /\ HasValue(raw.balance_sheet, "Total Liabilities", raw.balance_sheet.columns[1])
    /\ HasPeriod(raw.quarterly_balance_sheet)
    /\ "marketCap" \in DOMAIN raw.info
    /\ hist.trace[1].outcome = "missing"
    /\ hist.historical_data = None

(* C18: a non-null series is non-empty and strictly ascending by year (no
   year twice); when the loop ran and no period survives the filtering, the
   function returns no series and the message "Could not calculate
   historical Z-Scores." *)
C18_SeriesAscendingOrNone ==
    /\ (Returned /\ hist.historical_data # None) =>
          /\ Len(hist.historical_data[1]) >= 1
          /\ \A i, j \in 1..Len(hist.historical_data[1]) :
                 i < j => hist.historical_data[1][i].date < hist.historical_data[1][j].date
    /\ (LoopRan /\ \A k \in 1..Len(raw.balance_sheet.columns) : ~Survives(k)) =>
          /\ hist.historical_data = None
          /\ hist.error = <<<<"Could not calculate historical Z-Scores.">>>>

(* the later period comes first in the balance sheet, both periods give a point *)
C18_Witness ==
    /\ LoopRan
    /\ Len(raw.balance_sheet.columns) = 2
    /\ raw.balance_sheet.columns[1] > raw.balance_sheet.columns[2]
    /\ hist.trace[1].outcome = "point" /\ hist.trace[2].outcome = "point"
    /\ Len(Series) = 2
    /\ Series[1].date = CalendarYear(2) /\ Series[2].date = CalendarYear(1)
    /\ Series[1].date < Series[2].date

(* C22: the series returned by get_historical_financials called with the
   default years = 5 has at most 5 points, whatever the number of period
   columns of the annual balance sheet. *)
C22_AtMostYearsPoints ==
    (Returned /\ hist.historical_data # None) => Len(hist.historical_data[1]) <= 5

-----------------------------------------------------------------------------
(* Properties of the fetch request in the session *)

Pending == session.fetch_requested /\ session.fetch_ticker # None

(* a step that fetched: it replaced the snapshot, a function's result or the
   stored record *)
FetchStep ==
    \/ raw' # raw \/ ret' # ret \/ frame' # frame \/ hist' # hist
    \/ session.fetched_data' # session.fetched_data
    \/ session.historical_data' # session.historical_data

(* C23: every requested fetch is handled exactly once.  Once the handling
   step is over (the script is idle), after a success, a resolution error
   and an unexpected exception alike, fetch_requested is False and
   fetch_ticker is None; fetch_requested is True only while fetch_ticker is
   set; a step fetches only when a request is pending and it clears the
   request, so a run of the script without a new click fetches nothing. *)
C23_FetchHandledOnce ==
    /\ [](phase = "idle" => (~session.fetch_requested /\ session.fetch_ticker = None))
    /\ [](session.fetch_requested => session.fetch_ticker # None)
    /\ [][FetchStep => (Pending /\ ~session.fetch_requested' /\ session.fetch_ticker' = None)]_vars
    /\ [][Pending => ~session.fetch_requested']_vars

(* the handling ended in the except clause of line 751, with an earlier
   record still stored *)
C23_Witness ==
    /\ phase = "idle"
    /\ session.fetch_status = <<<<"Error", <<"exception">> >>>>
    /\ session.fetched_data # None
    /\ ~session.fetch_requested
    /\ session.fetch_ticker = None

====
